---- MODULE Spec2Model ----
(***************************************************************************)
(* Model of fmp_scraper's rate-limited, retrying API-fetch pipeline        *)
(* (src/fmp_scraper/fetcher.py): the RateLimiter class, the global         *)
(* rate_limiter with configure_rate_limiter, and make_api_request; the     *)
(* fetch_* functions, fetch_ticker_data and fetch_data_for_tickers; and    *)
(* the fetch subcommand (src/fmp_scraper/cli.py: handle_fetch).            *)
(*                                                                         *)
(* Time is the wall clock read by datetime.now(), counted in ticks of      *)
(* 0.1 s since local midnight of day 0 (the resolution of the limiter's    *)
(* random.uniform(0.1, 0.5) delay).  time.sleep(x) advances the clock by   *)
(* x; the datetime.now() calls made back to back inside one method read    *)
(* the same instant.                                                       *)
(***************************************************************************)
EXTENDS Integers, Sequences, FiniteSets, TLC

VARIABLES
    now,            \* wall clock, in ticks
    rate_limiter,   \* the global RateLimiter instance (fetcher.py:104)
    config,         \* what load_config() returns: api_key, rate_limit
    pc,             \* position of the single thread of control
    call,           \* the last make_api_request activation
    ncalls,         \* history: number of make_api_request calls so far
    ngets,          \* history: number of HTTP GETs issued so far
    sent,           \* history: the clock value of every add_request()
    last_wait,      \* history: what the last wait_if_needed() did
    fetcher,        \* the activation of one fetch_* function
    fetch,          \* the fetch_data_for_tickers activation
    configured,     \* history: the last configure_rate_limiter() activation
    cli,            \* the handle_fetch activation of the command line
    callers         \* position of each thread that shares the limiter

vars == <<now, rate_limiter, config, pc, call, ncalls, ngets, sent, last_wait,
          fetcher, fetch, configured, cli, callers>>

----------------------------------------------------------------------------
(* Bounds of the model *)

MaxPerMin == 3      \* quotas range over 1..MaxPerMin requests per minute
MaxPerDay == 5      \* and 1..MaxPerDay requests per day
MaxRequests == 5    \* add_request() calls explored in one run
MaxWork == 4        \* make_api_request calls plus HTTP GETs in one run
MaxRetriesArg == 3  \* max_retries ranges over -1..MaxRetriesArg
MaxRows == 3        \* a payload list holds 0..MaxRows rows
MaxTickers == 2     \* fetch_data_for_tickers gets 0..MaxTickers tickers

----------------------------------------------------------------------------
(* Units and program constants *)

TicksPerSecond == 10
Seconds(n) == n * TicksPerSecond
MINUTE == Seconds(60)
DAY == Seconds(86400)

DEFAULT_REQUESTS_PER_MIN == 5
DEFAULT_REQUESTS_PER_DAY == 250
REQUEST_DELAY == 12
RATE_LIMIT_BACKOFF_FACTOR == 2
MAX_RETRIES == 3

\* time.sleep(random.uniform(0.1, 0.5)) at the end of wait_if_needed
LIMITER_JITTER_MIN == 1
LIMITER_JITTER_MAX == 5
LimiterJitter == {LIMITER_JITTER_MIN, LIMITER_JITTER_MAX}

\* random.uniform(1, 5) seconds added to the backoff after HTTP 429
BACKOFF_JITTER_MIN == 1
BACKOFF_JITTER_MAX == 5
BackoffJitter == {Seconds(BACKOFF_JITTER_MIN), Seconds(BACKOFF_JITTER_MAX)}

\* datetime(now.year, now.month, now.day): local midnight of the day of t
Midnight(t) == (t \div DAY) * DAY
\* the calendar date of t, as a day number
Date(t) == t \div DAY

Min(s) == CHOOSE x \in s : \A y \in s : x <= y
Range(q) == {q[i] : i \in 1..Len(q)}

----------------------------------------------------------------------------
(* class RateLimiter *)

\* RateLimiter.__init__ run at clock value t
NewRateLimiter(per_min, per_day, t) ==
    [requests_per_min |-> per_min,
     requests_per_day |-> per_day,
     daily_request_count |-> 0,
     minute_request_timestamps |-> <<>>,
     day_start_time |-> t]

\* (now - self.day_start_time).days > 0
ResetIfNewDay(rl, t) ==
    IF (t - rl.day_start_time) \div DAY > 0
    THEN [rl EXCEPT !.daily_request_count = 0, !.day_start_time = t]
    ELSE rl

KeepRecent(ts, t) == ts > t - MINUTE

CleanOldTimestamps(rl, t) ==
    [rl EXCEPT !.minute_request_timestamps =
        SelectSeq(@, LAMBDA ts : KeepRecent(ts, t))]

\* The daily-limit branch of wait_if_needed: sleep until tomorrow + 10 s,
\* reset both counters and return (before the trailing jitter sleep).
DailyWait(rl, t) ==
    LET tomorrow == Midnight(t) + DAY
        sleep_time == (tomorrow - t) + Seconds(10)
        t2 == t + sleep_time
    IN [rl |-> [rl EXCEPT !.daily_request_count = 0,
                          !.minute_request_timestamps = <<>>,
                          !.day_start_time = t2],
        now |-> t2, slept |-> sleep_time, path |-> "daily", jitter |-> 0]

WindowAfterMinuteWait(t2) == <<t2>>

\* The minute-limit branch of wait_if_needed followed by the jitter sleep j.
MinuteWait(rl, t, j) ==
    LET oldest == Min(Range(rl.minute_request_timestamps))
        seconds_since_oldest == t - oldest
    IN IF seconds_since_oldest < Seconds(60)
       THEN LET wait_time == Seconds(60) - seconds_since_oldest + Seconds(1)
                t2 == t + wait_time
            IN [rl |-> [rl EXCEPT !.minute_request_timestamps =
                                      WindowAfterMinuteWait(t2)],
                now |-> t2 + j, slept |-> wait_time, path |-> "minute",
                jitter |-> j]
       ELSE [rl |-> CleanOldTimestamps(rl, t),
             now |-> t + j, slept |-> 0, path |-> "stale", jitter |-> j]

\* RateLimiter.wait_if_needed called at clock value t, with jitter j.
\* Result: the limiter afterwards, the clock at return, the quota sleep
\* taken (0 when none), the branch followed and the time slept at line 88
\* (0 when the call returns before it).
WaitIfNeeded(rl0, t, j) ==
    LET rl == CleanOldTimestamps(ResetIfNewDay(rl0, t), t)
    IN IF rl.daily_request_count >= rl.requests_per_day
       THEN DailyWait(rl, t)
       ELSE IF Len(rl.minute_request_timestamps) >= rl.requests_per_min
            THEN MinuteWait(rl, t, j)
            ELSE [rl |-> rl, now |-> t + j, slept |-> 0, path |-> "free",
                  jitter |-> j]

\* RateLimiter.add_request called at clock value t
AddRequest(rl, t) ==
    [rl EXCEPT !.minute_request_timestamps = Append(@, t),
               !.daily_request_count = @ + 1]

----------------------------------------------------------------------------
(* History kept for the properties *)

\* requests recorded by add_request in the rolling 60 s window ending at t
RecordedInWindow(t) == {i \in 1..Len(sent) : sent[i] > t - MINUTE /\ sent[i] <= t}

\* requests recorded by add_request on calendar day d
RecordedOnDay(d) == {i \in 1..Len(sent) : Date(sent[i]) = d}

NoWait == [at |-> 0, per_min |-> 0, recent |-> 0, slept |-> 0,
           path |-> "none", date_before |-> 0, date_seen |-> 0,
           reset |-> FALSE, jitter |-> 0]

\* what a wait_if_needed() call at clock value t, with result w, did
WaitRecord(t, w) ==
    [at |-> t,
     per_min |-> rate_limiter.requests_per_min,
     recent |-> Cardinality(RecordedInWindow(t)),
     slept |-> w.slept,
     path |-> w.path,
     \* the date of construction or of the previous reset
     date_before |-> Date(rate_limiter.day_start_time),
     \* the date the call saw: at entry, or after its sleep until tomorrow
     date_seen |-> IF w.path = "daily" THEN Date(w.now) ELSE Date(t),
     reset |-> w.rl.day_start_time /= rate_limiter.day_start_time,
     jitter |-> w.jitter]

----------------------------------------------------------------------------
(* Initial state: the limiter has just been constructed with the quotas of *)
(* the configuration; nothing has been requested yet.                      *)

StartTimes == {0, Seconds(43200)}
Quotas == {[requests_per_min |-> m, requests_per_day |-> d] :
              m \in 1..MaxPerMin, d \in 1..MaxPerDay}
ApiKeys == {"", "CFGKEY"}

\* time that passes between two calls made by the caller
Elapsed == {0, Seconds(5), Seconds(50), Seconds(43200)}
\* the same, before a make_api_request call
CallElapsed == {0, Seconds(50)}
\* the clock when the module is imported
ImportTime == Seconds(43200)

\* the rate_limit entries a configuration file may hold: the default one
\* (config.py:20) and a tighter one
DefaultQuota == [requests_per_min |-> DEFAULT_REQUESTS_PER_MIN,
                 requests_per_day |-> DEFAULT_REQUESTS_PER_DAY]
TightQuota == [requests_per_min |-> 1, requests_per_day |-> 2]
ConfigQuotas == {DefaultQuota, TightQuota}

None == "None"
NoParams == [k \in {} |-> ""]
\* the value of a variable that a specification does not use
Unused == [state |-> "unused"]

NoCall == [running |-> FALSE, api_key |-> None, max_retries |-> 0,
           attempt |-> 0, params |-> NoParams, trace |-> <<>>,
           result |-> "none", limiter_before |-> NewRateLimiter(0, 0, 0),
           api_key_arg |-> None, params_arg |-> NoParams]

\* The module has just been imported: the global limiter is RateLimiter()
\* with the default quotas (fetcher.py:104).
Init ==
    /\ now = ImportTime
    /\ config \in [api_key : ApiKeys, rate_limit : ConfigQuotas]
    /\ rate_limiter = NewRateLimiter(DEFAULT_REQUESTS_PER_MIN,
                                     DEFAULT_REQUESTS_PER_DAY, now)
    /\ pc = "idle"
    /\ call = NoCall
    /\ ncalls = 0
    /\ ngets = 0
    /\ sent = <<>>
    /\ last_wait = NoWait
    /\ fetcher = Unused
    /\ configured = Unused
    /\ cli = Unused
    /\ callers = Unused
    /\ fetch = Unused

\* A limiter constructed with any quotas, used directly.
InitLimiter ==
    /\ now \in StartTimes
    /\ config \in [api_key : {""}, rate_limit : Quotas]
    /\ rate_limiter = NewRateLimiter(config.rate_limit.requests_per_min,
                                     config.rate_limit.requests_per_day, now)
    /\ pc = "idle"
    /\ call = NoCall
    /\ ncalls = 0
    /\ ngets = 0
    /\ sent = <<>>
    /\ last_wait = NoWait
    /\ fetcher = Unused
    /\ configured = Unused
    /\ cli = Unused
    /\ callers = Unused
    /\ fetch = Unused

----------------------------------------------------------------------------
(* A caller that uses the limiter directly and sequentially: every         *)
(* wait_if_needed() is followed by add_request().                          *)

LimiterAcquire ==
    /\ pc = "idle"
    /\ Len(sent) < MaxRequests
    /\ \E d \in Elapsed, j \in LimiterJitter :
         LET t == now + d
             w == WaitIfNeeded(rate_limiter, t, j)
         IN /\ rate_limiter' = w.rl
            /\ now' = w.now
            /\ last_wait' = WaitRecord(t, w)
    /\ pc' = "acquired"
    /\ UNCHANGED <<configured, cli, callers, fetcher, fetch, config, call, ncalls, ngets, sent>>

LimiterRecord ==
    /\ pc = "acquired"
    /\ rate_limiter' = AddRequest(rate_limiter, now)
    /\ sent' = Append(sent, now)
    /\ pc' = "idle"
    /\ UNCHANGED <<configured, cli, callers, fetcher, fetch, now, config, call, ncalls, ngets, last_wait>>

NextLimiter == LimiterAcquire \/ LimiterRecord

SpecLimiter == InitLimiter /\ [][NextLimiter]_vars

----------------------------------------------------------------------------
(* Threads that share the global limiter, each running the pair            *)
(* wait_if_needed() ... add_request() of make_api_request.  The code takes *)
(* no lock: a thread may run between the two calls of another.  Each of    *)
(* the two methods is taken as one step.                                   *)

Callers == {"t1", "t2"}

InitConcurrent ==
    /\ now = ImportTime
    /\ config \in [api_key : {"CFGKEY"}, rate_limit : ConfigQuotas]
    /\ rate_limiter = NewRateLimiter(config.rate_limit.requests_per_min,
                                     config.rate_limit.requests_per_day, now)
    /\ pc = "idle"
    /\ call = NoCall
    /\ ncalls = 0
    /\ ngets = 0
    /\ sent = <<>>
    /\ last_wait = NoWait
    /\ fetcher = Unused
    /\ fetch = Unused
    /\ configured = Unused
    /\ cli = Unused
    /\ callers = [c \in Callers |-> "idle"]

\* the threads that have checked the quotas and not yet recorded a request
Acquired == {c \in Callers : callers[c] = "acquired"}

\* thread c: rate_limiter.wait_if_needed()
CallerAcquire(c) ==
    /\ callers[c] = "idle"
    /\ Len(sent) + Cardinality(Acquired) < MaxRequests
    /\ \E d \in CallElapsed, j \in LimiterJitter :
         LET t == now + d
             w == WaitIfNeeded(rate_limiter, t, j)
         IN /\ rate_limiter' = w.rl
            /\ now' = w.now
            /\ last_wait' = WaitRecord(t, w)
    /\ callers' = [callers EXCEPT ![c] = "acquired"]
    /\ UNCHANGED <<configured, cli, fetcher, fetch, config, pc, call,
                   ncalls, ngets, sent>>

\* thread c: requests.get(...) and rate_limiter.add_request()
CallerRecord(c) ==
    /\ callers[c] = "acquired"
    /\ rate_limiter' = AddRequest(rate_limiter, now)
    /\ sent' = Append(sent, now)
    /\ callers' = [callers EXCEPT ![c] = "idle"]
    /\ UNCHANGED <<configured, cli, fetcher, fetch, now, config, pc, call,
                   ncalls, ngets, last_wait>>

NextConcurrent == \E c \in Callers : CallerAcquire(c) \/ CallerRecord(c)

SpecConcurrent == InitConcurrent /\ [][NextConcurrent]_vars

----------------------------------------------------------------------------
(* configure_rate_limiter() and make_api_request()                         *)

\* d.get(key, default)
DictGet(d, key, default) == IF key \in DOMAIN d THEN d[key] ELSE default

ConfigureRateLimiterInPlace(rl, cfg, t) ==
    IF "rate_limit" \in DOMAIN cfg
    THEN [rl EXCEPT
            !.requests_per_min = DictGet(cfg.rate_limit, "requests_per_min",
                                      DEFAULT_REQUESTS_PER_MIN),
            !.requests_per_day = DictGet(cfg.rate_limit, "requests_per_day",
                                      DEFAULT_REQUESTS_PER_DAY)]
    ELSE rl

\* configure_rate_limiter(cfg) run at clock value t, cfg being the argument
\* or, without one, load_config(): a new limiter replaces the global one
\* only when cfg has a rate_limit entry whose quotas differ.
ConfigureRateLimiter(rl, cfg, t) ==
    IF "rate_limit" \in DOMAIN cfg
    THEN LET requests_per_min == DictGet(cfg.rate_limit, "requests_per_min",
                                      DEFAULT_REQUESTS_PER_MIN)
             requests_per_day == DictGet(cfg.rate_limit, "requests_per_day",
                                      DEFAULT_REQUESTS_PER_DAY)
         IN IF requests_per_min /= rl.requests_per_min
               \/ requests_per_day /= rl.requests_per_day
            THEN NewRateLimiter(requests_per_min, requests_per_day, t)
            ELSE rl
    ELSE rl

\* what a configure_rate_limiter(cfg) call made of the limiter
Configured(cfg, before, after) ==
    [config |-> cfg, before |-> before, after |-> after]

EffectiveApiKeyConfigFirst(api_key, cfg) ==
    IF cfg.api_key /= "" THEN cfg.api_key ELSE api_key

\* if api_key is None: api_key = get_api_key()
EffectiveApiKey(api_key, cfg) ==
    IF api_key = None THEN cfg.api_key ELSE api_key

\* the params dict the callers of the model pass
ParamsArgs == {[symbol |-> "AAPL"]}

HasApiKeyNoneOnly(api_key) == api_key /= None

\* "not api_key" is false
HasApiKey(api_key) == api_key /= None /\ api_key /= ""

\* params["apikey"] = api_key: the dict of the caller gets the key
WithApiKey(params, api_key) ==
    [k \in DOMAIN params \cup {"apikey"} |->
        IF k = "apikey" THEN api_key ELSE params[k]]

\* What requests.get can produce: an exception of the network layer
\* (timeout, connection reset), or a response with a status code and body.
NetworkError == [raised |-> TRUE, status_code |-> 0, body |-> "none"]
Responses ==
    {NetworkError}
    \cup {[raised |-> FALSE, status_code |-> 200, body |-> b] :
             b \in {"payload", "error_message", "not_json"}}
    \cup {[raised |-> FALSE, status_code |-> c, body |-> "none"] :
             c \in {429, 500}}

\* response.raise_for_status() raises HTTPError
RaisesForStatus(r) == r.status_code >= 400 /\ r.status_code < 600

IsTooManyRequests(r) == r.status_code = 429

\* The branch of the try/except an attempt takes for the outcome r of
\* requests.get.  response.json() on a body that is not JSON raises
\* JSONDecodeError, which is a RequestException from requests 2.27 on and a
\* plain ValueError in requests 2.26 (setup.py: requests>=2.26.0).
Classify(r, json_error_is_request_exception) ==
    IF r.raised THEN "net_error"
    ELSE IF RaisesForStatus(r)
         THEN (IF IsTooManyRequests(r) THEN "rate_limited" ELSE "http_error")
    ELSE IF r.body = "not_json"
         THEN (IF json_error_is_request_exception
               THEN "json_error" ELSE "json_raise")
    ELSE IF r.body = "error_message" THEN "api_error"
    ELSE "ok"

RECURSIVE Pow(_, _)
Pow(b, e) == IF e <= 0 THEN 1 ELSE b * Pow(b, e - 1)

BackoffBaseLinear(attempt) ==
    Seconds(REQUEST_DELAY * (RATE_LIMIT_BACKOFF_FACTOR * attempt))

\* REQUEST_DELAY * (RATE_LIMIT_BACKOFF_FACTOR ** attempt), in ticks
BackoffBase(attempt) ==
    Seconds(REQUEST_DELAY * Pow(RATE_LIMIT_BACKOFF_FACTOR, attempt))

\* the time.sleep() of the except branches; 0 when the branch has none
BackoffWait(outcome, attempt, jitter) ==
    IF outcome = "rate_limited" THEN BackoffBase(attempt) + jitter
    ELSE IF outcome \in {"net_error", "json_error"} THEN BackoffBase(attempt)
    ELSE 0

RetryableWithout429 == {"net_error", "json_error"}
RetryableWithHttpError == {"rate_limited", "net_error", "json_error", "http_error"}

\* the branches that go on to the next iteration of the loop
Retryable == {"rate_limited", "net_error", "json_error"}

\* add_request() is reached unless requests.get itself raised
Records(r) == ~r.raised

\* what the attempt returns, for the branches that leave the loop
ResultOf(outcome) ==
    IF outcome = "ok" THEN "data"
    ELSE IF outcome = "json_raise" THEN "raised"
    ELSE None

LoopContinuesInclusive(attempt, max_retries) == attempt <= max_retries

\* for attempt in range(max_retries): is there an iteration for attempt?
LoopContinues(attempt, max_retries) == attempt < max_retries

\* History of a call: what it did, in order.  A "get" event carries the
\* outcome of requests.get, a "sleep" event the outcome it follows and the
\* time slept.
NoResponse == [raised |-> FALSE, status_code |-> 0, body |-> "none"]
Event(ev, attempt, response, wait) ==
    [ev |-> ev, attempt |-> attempt, response |-> response, wait |-> wait]

ApiKeyArgs == {None, "", "ARGKEY"}
RetriesArgs == -1..MaxRetriesArg
Max(a, b) == IF a >= b THEN a ELSE b

\* what the run has cost so far; a call is started only when the GETs it
\* may issue fit into what is left of MaxWork
Work == ncalls + ngets

\* make_api_request, lines 142-155: reconfigure the limiter, resolve the
\* API key, fail fast without one, add it to params.  call.params is the
\* dict the caller passed, as the call leaves it; it is the dict every
\* requests.get of the call sends.
MakeApiRequest ==
    /\ pc = "idle"
    /\ \E d \in CallElapsed, api_key \in ApiKeyArgs,
          max_retries \in RetriesArgs, params \in ParamsArgs :
         LET t == now + d
             key == EffectiveApiKey(api_key, config)
             limiter == ConfigureRateLimiter(rate_limiter, config, t)
         IN /\ Work + 1 + Max(max_retries, 0) <= MaxWork
            /\ now' = t
            /\ rate_limiter' = limiter
            /\ configured' = Configured(config, rate_limiter, limiter)
            /\ IF HasApiKey(key)
               THEN /\ call' = [running |-> TRUE, api_key |-> key,
                                max_retries |-> max_retries, attempt |-> 0,
                                params |-> WithApiKey(params, key),
                                trace |-> <<>>, result |-> "none",
                                limiter_before |-> rate_limiter,
                                api_key_arg |-> api_key,
                                params_arg |-> params]
                    /\ pc' = "loop"
               ELSE /\ call' = [running |-> FALSE, api_key |-> key,
                                max_retries |-> max_retries, attempt |-> 0,
                                params |-> params,
                                trace |-> <<>>, result |-> None,
                                limiter_before |-> rate_limiter,
                                api_key_arg |-> api_key,
                                params_arg |-> params]
                    /\ pc' = "idle"
    /\ ncalls' = ncalls + 1
    /\ UNCHANGED <<cli, callers, fetcher, fetch, config, ngets, sent,
                   last_wait>>

\* for attempt in range(max_retries): rate_limiter.wait_if_needed()
Acquire ==
    /\ pc = "loop"
    /\ LoopContinues(call.attempt, call.max_retries)
    /\ \E j \in LimiterJitter :
         LET w == WaitIfNeeded(rate_limiter, now, j)
         IN /\ rate_limiter' = w.rl
            /\ now' = w.now
            /\ last_wait' = WaitRecord(now, w)
    /\ call' = [call EXCEPT !.trace =
                   Append(@, Event("acquire", call.attempt, NoResponse, 0))]
    /\ pc' = "get"
    /\ UNCHANGED <<configured, cli, callers, fetcher, fetch, config, ncalls, ngets, sent>>

\* random.uniform(1, 5) is drawn in the HTTP 429 branch only
JitterDrawn(r) ==
    IF RaisesForStatus(r) /\ IsTooManyRequests(r) THEN BackoffJitter ELSE {0}

\* whether the installed requests makes JSONDecodeError a RequestException;
\* it matters only where response.json() is reached
JsonErrors(r) ==
    IF ~r.raised /\ ~RaisesForStatus(r) THEN BOOLEAN ELSE {TRUE}

BacksOffUnlessLast(outcome, attempt, max_retries) ==
    outcome \in Retryable /\ attempt + 1 < max_retries

\* the except branches that end with time.sleep(wait_time): they sleep in
\* every iteration of the loop, the last one too
BacksOff(outcome, attempt, max_retries) == outcome \in Retryable

AfterBackoffAtGet == "get"

\* where a retry resumes: "continue" goes back to the top of the loop body,
\* whose first statement is rate_limiter.wait_if_needed()
AfterBackoff == "loop"

\* requests.get, add_request, raise_for_status, json, the error-message
\* test and the except branches with their backoff sleep (lines 164-197)
Get ==
    /\ pc = "get"
    /\ \E r \in Responses :
       \E jitter \in JitterDrawn(r), compat \in JsonErrors(r) :
         LET outcome == Classify(r, compat)
             wait == BackoffWait(outcome, call.attempt, jitter)
             got == <<Event("get", call.attempt, r, 0)>>
             recorded == IF Records(r)
                         THEN <<Event("record", call.attempt, NoResponse, 0)>>
                         ELSE <<>>
             backs_off == BacksOff(outcome, call.attempt, call.max_retries)
             slept == IF backs_off
                      THEN <<Event("sleep", call.attempt, r, wait)>>
                      ELSE <<>>
         IN /\ rate_limiter' = IF Records(r)
                               THEN AddRequest(rate_limiter, now)
                               ELSE rate_limiter
            /\ sent' = IF Records(r) THEN Append(sent, now) ELSE sent
            /\ now' = IF backs_off THEN now + wait ELSE now
            /\ IF outcome \in Retryable
               THEN /\ call' = [call EXCEPT
                                  !.trace = @ \o got \o recorded \o slept,
                                  !.attempt = @ + 1]
                    /\ pc' = AfterBackoff
               ELSE /\ call' = [call EXCEPT
                                  !.trace = @ \o got \o recorded,
                                  !.running = FALSE,
                                  !.result = ResultOf(outcome)]
                    /\ pc' = "idle"
    /\ ngets' = ngets + 1
    /\ UNCHANGED <<configured, cli, callers, fetcher, fetch, config, ncalls, last_wait>>

\* the loop is over: "Failed after {max_retries} retries", return None
Exhausted ==
    /\ pc = "loop"
    /\ ~LoopContinues(call.attempt, call.max_retries)
    /\ call' = [call EXCEPT !.running = FALSE, !.result = None]
    /\ pc' = "idle"
    /\ UNCHANGED <<configured, cli, callers, fetcher, fetch, now, rate_limiter, config, ncalls, ngets,
                   sent, last_wait>>

\* the user edits the rate_limit entry of the configuration file
EditConfig ==
    /\ pc = "idle"
    /\ Work < MaxWork
    /\ \E q \in ConfigQuotas \ {config.rate_limit} :
         config' = [config EXCEPT !.rate_limit = q]
    /\ UNCHANGED <<configured, cli, callers, fetcher, fetch, now, rate_limiter, pc, call, ncalls, ngets,
                   sent, last_wait>>

Next == MakeApiRequest \/ Acquire \/ Get \/ Exhausted \/ EditConfig

Spec == Init /\ [][Next]_vars

\* One make_api_request call run to its end.  The thread is not stopped
\* from outside: every step of the call that can be taken is taken.
FirstCall == ncalls = 0 /\ MakeApiRequest
NextOneCall == FirstCall \/ Acquire \/ Get \/ Exhausted
SpecOneCall ==
    /\ Init
    /\ [][NextOneCall]_vars
    /\ WF_vars(Acquire) /\ WF_vars(Get) /\ WF_vars(Exhausted)

\* the configs a caller passes to configure_rate_limiter(config): without
\* a rate_limit entry, and with a partial one
ConfigArgs ==
    {[api_key |-> "CFGKEY"],
     [api_key |-> "CFGKEY", rate_limit |-> [requests_per_min |-> 1]]}

\* a caller runs configure_rate_limiter itself, with a config or, without
\* one, on load_config()
ConfigureRateLimiterCall ==
    /\ pc = "idle"
    /\ \E cfg \in ConfigArgs \cup {config} :
         LET limiter == ConfigureRateLimiter(rate_limiter, cfg, now)
         IN /\ rate_limiter' = limiter
            /\ configured' = Configured(cfg, rate_limiter, limiter)
    /\ UNCHANGED <<cli, callers, fetcher, fetch, now, config, pc, call,
                   ncalls, ngets, sent, last_wait>>

\* A caller that makes one make_api_request call and runs
\* configure_rate_limiter itself, before and after it.
NextConfigure ==
    \/ ConfigureRateLimiterCall
    \/ FirstCall \/ Acquire \/ Get \/ Exhausted

SpecConfigure == Init /\ [][NextConfigure]_vars

----------------------------------------------------------------------------
(* Properties of the rate limiter *)

\* C1: once requests_per_min requests have been recorded in the rolling
\* 60 s window that ends at a wait_if_needed() call, that call does not
\* return without a quota sleep.
PerMinuteAcquireWaits ==
    (last_wait.path /= "none" /\ last_wait.recent >= last_wait.per_min)
        => last_wait.slept > 0

\* C2: no rolling 60 s interval holds more than requests_per_min recorded
\* requests (it is enough to look at the intervals ending at a request).
PerMinuteQuotaRespected ==
    \A i \in 1..Len(sent) :
        Cardinality(RecordedInWindow(sent[i])) <= rate_limiter.requests_per_min

\* C3: no calendar day holds more than requests_per_day recorded requests.
PerDayQuotaRespected ==
    \A i \in 1..Len(sent) :
        Cardinality(RecordedOnDay(Date(sent[i]))) <= rate_limiter.requests_per_day

\* C4: a wait_if_needed() call resets the daily counter exactly when the
\* calendar date it sees is later than the date of construction or of the
\* previous reset: once per observed day boundary, never within a day.
DailyResetAtDayBoundary ==
    last_wait.path /= "none"
        => (last_wait.reset <=> last_wait.date_seen > last_wait.date_before)


----------------------------------------------------------------------------
(* Properties of make_api_request *)

\* a make_api_request call has returned (or raised)
Returned == pc = "idle" /\ ncalls > 0
\* the call got past the API-key test and into the retry loop
EnteredLoop == call.api_key \notin {None, ""}

EventsOf(ev) == SelectSeq(call.trace, LAMBDA e : e.ev = ev)
Gets == EventsOf("get")
Sleeps == EventsOf("sleep")
Recordings == EventsOf("record")
Acquires == EventsOf("acquire")

\* the outcomes of requests.get, as the caller of the model injects them
Is429(e) == ~e.response.raised /\ e.response.status_code = 429
IsNetworkError(e) == e.response.raised
IsSuccess(e) ==
    /\ ~e.response.raised
    /\ e.response.status_code = 200
    /\ e.response.body = "payload"
IsFatal(e) ==
    /\ ~e.response.raised
    /\ \/ e.response.status_code >= 400 /\ e.response.status_code /= 429
       \/ e.response.status_code = 200 /\ e.response.body = "error_message"

\* the GETs of the call were answered by k >= 0 HTTP 429 and then a success
Only429ThenSuccess ==
    /\ Len(Gets) >= 1
    /\ IsSuccess(Gets[Len(Gets)])
    /\ \A i \in 1..(Len(Gets) - 1) : Is429(Gets[i])
\* every GET of the call was answered by HTTP 429
Only429 == \A i \in 1..Len(Gets) : Is429(Gets[i])

\* C5: with max_retries = n >= 1, k < n HTTP 429 responses followed by a
\* success give k+1 GETs, k backoff waits and the payload; n HTTP 429
\* responses in a row give exactly n GETs and None.  A call answered only by
\* HTTP 429 does not return before its n-th GET.
RetrySequenceOutcome ==
    (Returned /\ EnteredLoop /\ call.max_retries >= 1)
        => /\ Only429ThenSuccess
                => /\ Len(Gets) <= call.max_retries
                   /\ Len(Sleeps) = Len(Gets) - 1
                   /\ call.result = "data"
           /\ Only429
                => /\ Len(Gets) = call.max_retries
                   /\ call.result = None

RetrySequenceWitness ==
    /\ Returned /\ call.max_retries = 3 /\ call.result = "data"
    /\ Len(Gets) = 3 /\ Only429ThenSuccess /\ Len(Sleeps) = 2

\* C6: in every attempt add_request() is called exactly once, right after
\* the GET, whatever the GET's outcome (network-level errors included).
RecordAfterEveryGet ==
    /\ Len(Recordings) = Len(Gets)
    /\ \A i \in 1..Len(call.trace) :
          call.trace[i].ev = "get"
            => /\ i < Len(call.trace)
               /\ call.trace[i + 1].ev = "record"
               /\ call.trace[i + 1].attempt = call.trace[i].attempt

\* C7: an HTTP error status other than 429, or a 2xx body with the field
\* "Error Message", ends the call in that attempt: None is returned, with no
\* backoff sleep and no further GET.
FatalStopsAtOnce ==
    \A i \in 1..Len(call.trace) :
        (call.trace[i].ev = "get" /\ IsFatal(call.trace[i]))
          => /\ Returned
             /\ call.result = None
             /\ \A k \in (i + 1)..Len(call.trace) :
                   call.trace[k].ev = "record"

FatalStopsWitness ==
    /\ Returned /\ call.result = None
    /\ Len(Gets) = 2 /\ Len(Sleeps) = 1
    /\ Is429(Gets[1]) /\ IsFatal(Gets[2])

\* C8: the backoff after a retryable failure in attempt i is 12 * 2^i s for
\* an error handled as RequestException (no jitter), and that plus a jitter
\* between 1 s and 5 s for HTTP 429.
ExpectedBase(i) == (12 * 2^i) * 10
BackoffIsExponential ==
    \A k \in 1..Len(Sleeps) :
        LET e == Sleeps[k]
        IN IF Is429(e)
           THEN /\ e.wait >= ExpectedBase(e.attempt) + 10
                /\ e.wait <= ExpectedBase(e.attempt) + 50
           ELSE e.wait = ExpectedBase(e.attempt)

BackoffWitness ==
    /\ Len(Sleeps) = 3
    /\ IsNetworkError(Sleeps[1]) /\ Sleeps[1].wait = 120
    /\ Is429(Sleeps[2]) /\ Sleeps[2].wait = 290
    /\ IsNetworkError(Sleeps[3]) /\ Sleeps[3].wait = 480

\* C9 as stated: a call without an API key returns None with no acquire, no
\* GET and no record, and leaves the limiter's window and daily count as
\* they were.
NoKeyLeavesLimiterUntouched ==
    (Returned /\ ~EnteredLoop)
        => /\ call.result = None
           /\ call.trace = <<>>
           /\ rate_limiter.minute_request_timestamps
                 = call.limiter_before.minute_request_timestamps
           /\ rate_limiter.daily_request_count
                 = call.limiter_before.daily_request_count

SameQuotas(a, b) ==
    /\ a.requests_per_min = b.requests_per_min
    /\ a.requests_per_day = b.requests_per_day

\* C9 amended: a call without an API key returns None with no acquire, no
\* GET and no record; the limiter is the one of before the call, unless its
\* quotas differed from the configured ones: then it is a new limiter with
\* an empty window and a daily count of 0.
NoKeyFailsFast ==
    (Returned /\ ~EnteredLoop)
        => /\ call.result = None
           /\ call.trace = <<>>
           /\ \/ rate_limiter = call.limiter_before
              \/ /\ ~SameQuotas(rate_limiter, call.limiter_before)
                 /\ rate_limiter.minute_request_timestamps = <<>>
                 /\ rate_limiter.daily_request_count = 0

NoKeyWitness ==
    /\ Returned /\ ~EnteredLoop /\ ncalls = 2
    /\ rate_limiter = call.limiter_before
    /\ rate_limiter.daily_request_count > 0

\* C10: a call issues at most max_retries GETs and always returns; when all
\* its attempts end in a retryable failure it returns None after exactly
\* max_retries GETs; with max_retries <= 0 it issues no GET and returns None.
AllRetryable ==
    \A i \in 1..Len(Gets) : Is429(Gets[i]) \/ IsNetworkError(Gets[i])
BoundedAttempts ==
    /\ Len(Gets) <= Max(call.max_retries, 0)
    /\ (Returned /\ EnteredLoop /\ AllRetryable)
          => /\ Len(Gets) = Max(call.max_retries, 0)
             /\ call.result = None
CallTerminates ==
    /\ []BoundedAttempts
    /\ (call.running ~> Returned)

BoundedAttemptsWitness ==
    /\ Returned /\ EnteredLoop /\ call.max_retries = 3 /\ call.result = None
    /\ Len(Gets) = 3
    /\ IsNetworkError(Gets[1]) /\ Is429(Gets[2]) /\ IsNetworkError(Gets[3])

\* C11: in a make_api_request call every GET is immediately preceded by the
\* wait_if_needed() of the same attempt, no two GETs share an acquire, and an
\* add_request() comes only right after the GET of its attempt: the events
\* of an attempt are in the order acquire, GET, record, on the first attempt
\* and on every retry.
AcquireBeforeEveryGet ==
    /\ \A i \in 1..Len(call.trace) :
          /\ call.trace[i].ev = "get"
                => /\ i > 1
                   /\ call.trace[i - 1].ev = "acquire"
                   /\ call.trace[i - 1].attempt = call.trace[i].attempt
          /\ call.trace[i].ev = "record"
                => /\ i > 1
                   /\ call.trace[i - 1].ev = "get"
                   /\ call.trace[i - 1].attempt = call.trace[i].attempt
    /\ Len(Acquires) >= Len(Gets)
    /\ \A i, j \in 1..Len(Gets) : i < j => Gets[i].attempt < Gets[j].attempt

AcquireBeforeEveryGetWitness ==
    /\ Returned /\ call.result = "data"
    /\ Len(Gets) = 3 /\ Len(Acquires) = 3 /\ Len(Recordings) = 2
    /\ Is429(Gets[1]) /\ IsNetworkError(Gets[2]) /\ IsSuccess(Gets[3])

----------------------------------------------------------------------------
(* JSON payloads, and the pandas operations the fetchers apply to them.    *)
(* A JSON object is a record, a JSON array a sequence.  A date string      *)
(* "YYYY-MM-DD" is the triple <<year, month, day>>; pd.to_datetime turns   *)
(* it into a timestamp, here the day number of the proleptic Gregorian     *)
(* calendar.                                                               *)

IsLeapYear(y) == (y % 4 = 0 /\ y % 100 /= 0) \/ y % 400 = 0
DaysInMonth(y, m) ==
    IF m = 2 THEN (IF IsLeapYear(y) THEN 29 ELSE 28)
    ELSE IF m \in {4, 6, 9, 11} THEN 30 ELSE 31
DaysBeforeYear(y) ==
    (y - 1) * 365 + ((y - 1) \div 4) - ((y - 1) \div 100) + ((y - 1) \div 400)
RECURSIVE DaysBeforeMonth(_, _)
DaysBeforeMonth(y, m) ==
    IF m <= 1 THEN 0 ELSE DaysBeforeMonth(y, m - 1) + DaysInMonth(y, m - 1)

\* pd.to_datetime of one date string
ToDatetime(d) == DaysBeforeYear(d[1]) + DaysBeforeMonth(d[1], d[2]) + d[3]

\* what make_api_request hands to a fetcher: None, a JSON array, a JSON
\* object, or (response.json() failing with a plain ValueError) an exception
NoneData == [type |-> "None"]
ListData(items) == [type |-> "list", items |-> items]
DictData(fields) == [type |-> "dict", fields |-> fields]
RaisedData == [type |-> "raise"]

TruthyUnlessNone(data) == data.type /= "None"

\* Python truth value of data: None, [] and {} are false
Truthy(data) ==
    CASE data.type = "None" -> FALSE
      [] data.type = "list" -> Len(data.items) > 0
      [] data.type = "dict" -> DOMAIN data.fields /= {}

\* key in data: a key of the object; no element of an array of objects
\* equals a string
Contains(data, key) ==
    IF data.type = "dict" THEN key \in DOMAIN data.fields ELSE FALSE

\* what a fetcher gives back to its caller
ReturnsNone == [kind |-> "None"]
Raises(e) == [kind |-> "raised", error |-> e]
ReturnsTable(df) == [kind |-> "table", table |-> df]

\* pd.DataFrame(list of objects): a row per object under a RangeIndex, the
\* columns are the keys of the objects
DataFrame(items) ==
    [index_name |-> None,
     columns |-> UNION {DOMAIN items[i] : i \in 1..Len(items)},
     rows |-> [i \in 1..Len(items) |-> [index |-> i - 1, cells |-> items[i]]]]

\* df.empty: no row or no column
DfEmpty(df) == Len(df.rows) = 0 \/ df.columns = {}

\* df[c] = pd.to_datetime(df[c]) for every c of cols
ConvertToDatetime(df, cols) ==
    [index_name |-> df.index_name,
     columns |-> df.columns,
     rows |-> [i \in 1..Len(df.rows) |->
                 [index |-> df.rows[i].index,
                  cells |-> [c \in DOMAIN df.rows[i].cells |->
                               IF c \in cols
                               THEN ToDatetime(df.rows[i].cells[c])
                               ELSE df.rows[i].cells[c]]]]]

AssignColumnIfAbsent(df, col, value) ==
    [index_name |-> df.index_name,
     columns |-> df.columns \cup {col},
     rows |-> [i \in 1..Len(df.rows) |->
                 [index |-> df.rows[i].index,
                  cells |-> [c \in DOMAIN df.rows[i].cells \cup {col} |->
                               IF c \in DOMAIN df.rows[i].cells
                               THEN df.rows[i].cells[c]
                               ELSE value]]]]

\* df[c] = value
AssignColumn(df, col, value) ==
    [index_name |-> df.index_name,
     columns |-> df.columns \cup {col},
     rows |-> [i \in 1..Len(df.rows) |->
                 [index |-> df.rows[i].index,
                  cells |-> [c \in DOMAIN df.rows[i].cells \cup {col} |->
                               IF c = col THEN value
                               ELSE df.rows[i].cells[c]]]]]

\* df.set_index(col, inplace=True)
SetIndex(df, col) ==
    [index_name |-> col,
     columns |-> df.columns \ {col},
     rows |-> [i \in 1..Len(df.rows) |->
                 [index |-> df.rows[i].cells[col],
                  cells |-> [c \in DOMAIN df.rows[i].cells \ {col} |->
                               df.rows[i].cells[c]]]]]

AnyOrder(df, order) == TRUE

\* is the order of rows one that sort_index may produce: ascending index
Ascending(df, order) ==
    \A i, j \in 1..Len(df.rows) :
        i < j => df.rows[order[i]].index <= df.rows[order[j]].index

\* df.sort_index(inplace=True): the frames it can leave (the default
\* quicksort does not promise an order among equal index values)
SortIndex(df) ==
    {[index_name |-> df.index_name,
      columns |-> df.columns,
      rows |-> [i \in 1..Len(df.rows) |-> df.rows[order[i]]]] :
        order \in {o \in Permutations(1..Len(df.rows)) : Ascending(df, o)}}

\* the columns= argument of the rename calls
PRICE_COLUMNS ==
    [open |-> "Open", high |-> "High", low |-> "Low", close |-> "Close",
     volume |-> "Volume", adjClose |-> "Adj Close"]
INTRADAY_COLUMNS ==
    [open |-> "Open", high |-> "High", low |-> "Low", close |-> "Close",
     volume |-> "Volume"]

NewNameUnchanged(mapping, c) == c

NewName(mapping, c) == IF c \in DOMAIN mapping THEN mapping[c] ELSE c

\* df.rename(columns=mapping, inplace=True)
Rename(df, mapping) ==
    [index_name |-> df.index_name,
     columns |-> {NewName(mapping, c) : c \in df.columns},
     rows |-> [i \in 1..Len(df.rows) |->
                 [index |-> df.rows[i].index,
                  cells |-> [n \in {NewName(mapping, c) :
                                       c \in DOMAIN df.rows[i].cells} |->
                               df.rows[i].cells[
                                   CHOOSE c \in DOMAIN df.rows[i].cells :
                                       NewName(mapping, c) = n]]]]]

\* the columns whose lower-cased name contains "date", among the columns
\* that occur in the payloads of the model
DATE_NAMED == {"date", "paymentDate", "recordDate", "declarationDate",
               "fillingDate", "acceptedDate"}
DateColumns(df) == df.columns \cap DATE_NAMED

\* fetch_historical_price and fetch_crypto_price after the request
HistoricalPriceTable(data) ==
    IF ~Truthy(data) \/ ~Contains(data, "historical") THEN {ReturnsNone}
    ELSE LET df == DataFrame(data.fields.historical)
         IN IF "date" \notin df.columns THEN {Raises("KeyError")}
            ELSE {ReturnsTable(Rename(sorted, PRICE_COLUMNS)) :
                    sorted \in SortIndex(SetIndex(
                                  ConvertToDatetime(df, {"date"}), "date"))}

\* pd.DataFrame(data) for the data of an endpoint that answers with an
\* array: an object of scalars makes the constructor raise ValueError
FrameOfData(data) ==
    IF data.type = "dict" THEN Raises("ValueError")
    ELSE ReturnsTable(DataFrame(data.items))

\* fetch_intraday_prices after the request
IntradayTable(data) ==
    IF ~Truthy(data) THEN {ReturnsNone}
    ELSE LET frame == FrameOfData(data)
             df == frame.table
         IN IF frame.kind = "raised" THEN {frame}
            ELSE IF DfEmpty(df) THEN {ReturnsNone}
            ELSE IF "date" \notin df.columns THEN {Raises("KeyError")}
            ELSE {ReturnsTable(Rename(sorted, INTRADAY_COLUMNS)) :
                    sorted \in SortIndex(SetIndex(
                                  ConvertToDatetime(df, {"date"}), "date"))}

DIVIDEND_DATES == {"date", "paymentDate", "recordDate", "declarationDate"}

\* fetch_historical_dividends after the request
DividendTable(data) ==
    IF ~Truthy(data) \/ ~Contains(data, "historical") THEN {ReturnsNone}
    ELSE LET df == DataFrame(data.fields.historical)
         IN IF DfEmpty(df) THEN {ReturnsNone}
            ELSE IF ~(DIVIDEND_DATES \subseteq df.columns)
                 THEN {Raises("KeyError")}
            ELSE {ReturnsTable(sorted) :
                    sorted \in SortIndex(SetIndex(
                                  ConvertToDatetime(df, DIVIDEND_DATES),
                                  "date"))}

\* fetch_company_profile after its requests
ProfileTable(data) ==
    IF ~Truthy(data) THEN {ReturnsNone}
    ELSE LET frame == FrameOfData(data)
         IN IF frame.kind = "raised" THEN {frame}
            ELSE IF DfEmpty(frame.table) THEN {ReturnsNone}
            ELSE {frame}

\* fetch_income_statement, fetch_balance_sheet and fetch_cash_flow after
\* their requests
StatementTable(ticker, data) ==
    IF ~Truthy(data) THEN {ReturnsNone}
    ELSE LET frame == FrameOfData(data)
             df == frame.table
             dated == AssignColumn(ConvertToDatetime(df, DateColumns(df)),
                                   "symbol", ticker)
         IN IF frame.kind = "raised" THEN {frame}
            ELSE IF DfEmpty(df) THEN {ReturnsNone}
            ELSE IF "date" \in dated.columns
                 THEN {ReturnsTable(sorted) :
                         sorted \in SortIndex(SetIndex(dated, "date"))}
            ELSE {ReturnsTable(dated)}

----------------------------------------------------------------------------
(* One call of a fetch_* function: its requests, then its table            *)

NoDate == <<>>                      \* from_date / to_date is None
Given(d) == d /= NoDate             \* its truth value
Tickers == {"AAPL", "MSFT"}
DateArgs == {<<NoDate, NoDate>>, <<<<2024, 1, 1>>, NoDate>>,
             <<<<2024, 1, 1>>, <<2024, 2, 1>>>>}
Intervals == {"1hour", "2hour"}
Periods == {"annual", "quarter", "Quarter", "ttm"}
Limits == {10}

LowerUnchanged(str) == str

\* str.lower(), on the period strings of the model
Lower(str) == IF str = "Quarter" THEN "quarter" ELSE str

STATEMENTS == {"fetch_income_statement", "fetch_balance_sheet",
               "fetch_cash_flow"}

HasFallbackStatementsOnly(name) == name \in STATEMENTS

\* the fetchers with a second make_api_request under "if not data:"
HasFallback(name) == name \in STATEMENTS \cup {"fetch_company_profile"}

\* the arguments of a make_api_request call: the endpoint, as its path
\* segments, and params
Request(endpoint, params) == [endpoint |-> endpoint, params |-> params]

StatementEndpoint(name) ==
    CASE name = "fetch_income_statement" -> "income-statement"
      [] name = "fetch_balance_sheet" -> "balance-sheet-statement"
      [] name = "fetch_cash_flow" -> "cash-flow-statement"

VALID_INTERVALS == {"1min", "5min", "15min", "30min", "1hour", "4hour"}

ReturnsEarlyDatesOnly(f) ==
    /\ f.name = "fetch_intraday_prices"
    /\ \/ ~Given(f.from_date) \/ ~Given(f.to_date)

\* fetch_intraday_prices returns None before any request
ReturnsEarly(f) ==
    /\ f.name = "fetch_intraday_prices"
    /\ \/ ~Given(f.from_date) \/ ~Given(f.to_date)
       \/ f.interval \notin VALID_INTERVALS

\* the first make_api_request of each fetcher
PrimaryRequestOf(f) ==
    CASE f.name = "fetch_historical_price" ->
           IF Given(f.from_date) /\ Given(f.to_date)
           THEN Request(<<"historical-price-full">>,
                        [serietype |-> "line", from |-> f.from_date,
                         to |-> f.to_date])
           ELSE Request(<<"historical-price-full", f.ticker>>,
                        [serietype |-> "line"])
      [] f.name = "fetch_crypto_price" ->
           Request(<<"historical-price-full", f.ticker>>, NoParams)
      [] f.name = "fetch_intraday_prices" ->
           Request(<<"historical-chart", f.interval, f.ticker>>,
                   [from |-> f.from_date, to |-> f.to_date,
                    extended |-> "false"])
      [] f.name = "fetch_historical_dividends" ->
           Request(<<"historical-price-full", "stock_dividend">>,
                   [symbol |-> f.ticker])
      [] f.name = "fetch_company_profile" ->
           Request(<<"profile", "{ticker}">>, NoParams)
      [] f.name \in STATEMENTS ->
           IF Lower(f.period) = "annual"
           THEN Request(<<StatementEndpoint(f.name), f.ticker>>,
                        [limit |-> f.limit])
           ELSE IF Lower(f.period) = "quarter"
           THEN Request(<<StatementEndpoint(f.name), f.ticker>>,
                        [period |-> "quarter", limit |-> f.limit])
           ELSE Request(<<StatementEndpoint(f.name)>>,
                        [symbol |-> f.ticker, limit |-> f.limit])

SecondaryRequestAsPrimary(f) == PrimaryRequestOf(f)

\* the second make_api_request of the fetchers that have one
SecondaryRequestOf(f) ==
    IF f.name = "fetch_company_profile"
    THEN Request(<<"profile">>, [symbol |-> f.ticker])
    ELSE IF Lower(f.period) = "quarter"
    THEN Request(<<StatementEndpoint(f.name)>>,
                 [symbol |-> f.ticker, limit |-> f.limit,
                  period |-> "quarter"])
    ELSE Request(<<StatementEndpoint(f.name)>>,
                 [symbol |-> f.ticker, limit |-> f.limit])

\* what the fetcher makes of the data it ends up with
TableOf(f, data) ==
    CASE f.name \in {"fetch_historical_price", "fetch_crypto_price"} ->
           HistoricalPriceTable(data)
      [] f.name = "fetch_intraday_prices" -> IntradayTable(data)
      [] f.name = "fetch_historical_dividends" -> DividendTable(data)
      [] f.name = "fetch_company_profile" -> ProfileTable(data)
      [] f.name \in STATEMENTS -> StatementTable(f.ticker, data)

\* Payloads of the model.  The rows of one payload have the same fields.
Dates == {<<2023, 12, 31>>, <<2024, 1, 2>>, <<2024, 2, 1>>}
RowLists(rows) == UNION {[1..n -> rows] : n \in 0..MaxRows}
PriceRows ==
    {[date |-> d, close |-> c, volume |-> 5000] : d \in Dates, c \in {100, 101}}
UndatedPriceRows == {[close |-> 100, volume |-> 5000]}
FullPriceRows ==
    {[date |-> d, open |-> 99, high |-> 102, low |-> 98, close |-> 100,
      volume |-> 5000, adjClose |-> 97] : d \in Dates}
DividendRows ==
    {[date |-> d, dividend |-> v, paymentDate |-> <<2024, 2, 1>>,
      recordDate |-> <<2024, 1, 2>>, declarationDate |-> <<2023, 12, 31>>] :
        d \in Dates, v \in {1, 2}}
PartialDividendRows == {[date |-> d, dividend |-> 1] : d \in Dates}
ProfileRows == {[symbol |-> "AAPL", companyName |-> "Apple Inc."]}
StatementRows ==
    {[date |-> d, symbol |-> "MSFT", netIncome |-> v] :
        d \in Dates, v \in {7, 8}}
UndatedStatementRows == {[symbol |-> "MSFT", netIncome |-> 7]}
UntaggedStatementRows == {[date |-> d, netIncome |-> 7] : d \in Dates}

PayloadLists(name) ==
    CASE name \in {"fetch_historical_price", "fetch_crypto_price",
                   "fetch_intraday_prices"} ->
           RowLists(PriceRows) \cup RowLists(UndatedPriceRows)
               \cup RowLists(FullPriceRows)
      [] name = "fetch_historical_dividends" ->
           RowLists(DividendRows) \cup RowLists(PartialDividendRows)
      [] name = "fetch_company_profile" -> RowLists(ProfileRows)
      [] name \in STATEMENTS ->
           RowLists(StatementRows) \cup RowLists(UndatedStatementRows)
               \cup RowLists(UntaggedStatementRows)

ReadsHistorical(name) ==
    name \in {"fetch_historical_price", "fetch_crypto_price",
              "fetch_historical_dividends"}

\* what make_api_request can give the fetcher: None, an exception, an
\* empty object, an object of scalars, and the payload lists, as an array
\* or under "historical" according to the endpoint
Replies(name) ==
    {NoneData, RaisedData, DictData(NoParams),
     DictData([symbol |-> "AAPL"]), ListData(<<>>)}
    \cup (IF ReadsHistorical(name)
          THEN {DictData([symbol |-> "AAPL", historical |-> l]) :
                   l \in PayloadLists(name)}
          ELSE {ListData(l) : l \in PayloadLists(name)})

Pending == [kind |-> "pending"]
FetcherCall(name, ticker, dates, interval, period, limit) ==
    [name |-> name, ticker |-> ticker, from_date |-> dates[1],
     to_date |-> dates[2], interval |-> interval, period |-> period,
     limit |-> limit, pc |-> "primary", data |-> NoneData,
     requests |-> <<>>, result |-> Pending]

\* the calls of the model: every fetcher, with the arguments it reads
FetcherCalls ==
    {FetcherCall("fetch_historical_price", "AAPL", d, "1min", "annual", 10) :
        d \in DateArgs}
    \cup {FetcherCall("fetch_intraday_prices", "AAPL", d, i, "annual", 10) :
             d \in DateArgs, i \in Intervals}
    \cup {FetcherCall(n, "AAPL", <<NoDate, NoDate>>, "1min", "annual", 10) :
             n \in {"fetch_crypto_price", "fetch_historical_dividends",
                    "fetch_company_profile"}}
    \cup {FetcherCall(n, "AAPL", <<NoDate, NoDate>>, "1min", p, l) :
             n \in STATEMENTS, p \in Periods, l \in Limits}

InitFetcher ==
    /\ now = ImportTime
    /\ config = [api_key |-> "CFGKEY", rate_limit |-> DefaultQuota]
    /\ rate_limiter = NewRateLimiter(DEFAULT_REQUESTS_PER_MIN,
                                     DEFAULT_REQUESTS_PER_DAY, now)
    /\ pc = "idle"
    /\ call = NoCall
    /\ ncalls = 0
    /\ ngets = 0
    /\ sent = <<>>
    /\ last_wait = NoWait
    /\ fetcher \in FetcherCalls
    /\ configured = Unused
    /\ cli = Unused
    /\ callers = Unused
    /\ fetch = Unused

\* the fetcher after make_api_request(request) gave reply
AfterReply(f, request, reply, may_fall_back) ==
    LET requests == Append(f.requests, [request |-> request, reply |-> reply])
    IN IF reply = RaisedData
       THEN [f EXCEPT !.requests = requests, !.result = Raises("ValueError"),
                      !.pc = "returned"]
       ELSE IF may_fall_back /\ ~Truthy(reply)
       THEN [f EXCEPT !.requests = requests, !.data = reply,
                      !.pc = "secondary"]
       ELSE [f EXCEPT !.requests = requests, !.data = reply,
                      !.pc = "normalize"]

\* the fetcher up to and including its first make_api_request
PrimaryRequest ==
    /\ fetcher.pc = "primary"
    /\ IF ReturnsEarly(fetcher)
       THEN fetcher' = [fetcher EXCEPT !.result = ReturnsNone,
                                       !.pc = "returned"]
       ELSE \E reply \in Replies(fetcher.name) :
              fetcher' = AfterReply(fetcher, PrimaryRequestOf(fetcher), reply,
                                    HasFallback(fetcher.name))
    /\ UNCHANGED <<configured, cli, callers, now, rate_limiter, config, pc, call, ncalls, ngets, sent,
                   last_wait, fetch>>

\* "if not data:" after the first request: the alternative request
SecondaryRequest ==
    /\ fetcher.pc = "secondary"
    /\ \E reply \in Replies(fetcher.name) :
         fetcher' = AfterReply(fetcher, SecondaryRequestOf(fetcher), reply,
                               FALSE)
    /\ UNCHANGED <<configured, cli, callers, now, rate_limiter, config, pc, call, ncalls, ngets, sent,
                   last_wait, fetch>>

\* the rest of the fetcher: the tests on data, the table, the return
BuildTable ==
    /\ fetcher.pc = "normalize"
    /\ \E result \in TableOf(fetcher, fetcher.data) :
         fetcher' = [fetcher EXCEPT !.result = result, !.pc = "returned"]
    /\ UNCHANGED <<configured, cli, callers, now, rate_limiter, config, pc, call, ncalls, ngets, sent,
                   last_wait, fetch>>

NextFetcher == PrimaryRequest \/ SecondaryRequest \/ BuildTable

SpecFetcher == InitFetcher /\ [][NextFetcher]_vars

----------------------------------------------------------------------------
(* fetch_ticker_data and fetch_data_for_tickers.  The fetchers are called  *)
(* in sequence; what each of them returns (None, a table, an exception)    *)
(* is drawn from the results a fetcher call can have.                      *)

\* the fetchers in the order fetch_ticker_data calls them
StageFetchers ==
    <<"fetch_historical_price", "fetch_intraday_prices",
      "fetch_historical_dividends", "fetch_company_profile",
      "fetch_income_statement", "fetch_balance_sheet", "fetch_cash_flow">>

\* the key of the result under which the table of a fetcher is put
StageLabel(name) ==
    CASE name = "fetch_historical_price" -> "ohlcv"
      [] name = "fetch_intraday_prices" -> "intraday"
      [] name = "fetch_historical_dividends" -> "dividends"
      [] name = "fetch_company_profile" -> "profile"
      [] name = "fetch_income_statement" -> "income_stmt"
      [] name = "fetch_balance_sheet" -> "balance_sheet"
      [] name = "fetch_cash_flow" -> "cash_flow"

StageEnabledAlways(name, a) == TRUE

\* is the fetcher called at all, for the arguments a of fetch_ticker_data
StageEnabled(name, a) ==
    CASE name = "fetch_intraday_prices" ->
           a.include_intraday /\ Given(a.from_date) /\ Given(a.to_date)
      [] name = "fetch_historical_dividends" -> a.include_dividends
      [] OTHER -> TRUE

\* the call fetch_ticker_data makes of the fetcher
StageCall(name, ticker, a) ==
    CASE name = "fetch_historical_price" ->
           FetcherCall(name, ticker, <<a.from_date, a.to_date>>, "1min",
                       "annual", 10)
      [] name = "fetch_intraday_prices" ->
           FetcherCall(name, ticker, <<a.from_date, a.to_date>>, "1hour",
                       "annual", 10)
      [] name \in {"fetch_historical_dividends", "fetch_company_profile"} ->
           FetcherCall(name, ticker, <<NoDate, NoDate>>, "1min", "annual", 10)
      [] name \in STATEMENTS ->
           FetcherCall(name, ticker, <<NoDate, NoDate>>, "1min", a.period,
                       a.years)

\* a dict without keys
EmptyMapping == [k \in {} |-> Unused]
\* m[k] = v
Put(m, k, v) == [x \in DOMAIN m \cup {k} |-> IF x = k THEN v ELSE m[x]]

EarningsUnrenamed(df) ==
    [index_name |-> df.index_name,
     columns |-> {"netIncome"},
     rows |-> [i \in 1..Len(df.rows) |->
                 [index |-> df.rows[i].index,
                  cells |-> [c \in {"netIncome"} |->
                               df.rows[i].cells.netIncome]]]]

\* df[["netIncome"]].copy() with columns = ["Net Income"]
Earnings(df) ==
    [index_name |-> df.index_name,
     columns |-> {"Net Income"},
     rows |-> [i \in 1..Len(df.rows) |->
                 [index |-> df.rows[i].index,
                  cells |-> [c \in {"Net Income"} |->
                               df.rows[i].cells.netIncome]]]]

\* lines 542-551: the earnings table derived from the income statement
WithEarnings(result) ==
    IF "income_stmt" \in DOMAIN result
       /\ "netIncome" \in result["income_stmt"].columns
    THEN Put(result, "earnings", Earnings(result["income_stmt"]))
    ELSE result

\* fetch_ticker_data from its k-th fetcher on: acc holds the calls made so
\* far and the result dict; an exception of a fetcher ends the function
RECURSIVE RunStages(_, _, _, _, _)
RunStages(k, ticker, a, outcomes, acc) ==
    IF k > Len(StageFetchers) THEN acc
    ELSE LET name == StageFetchers[k]
             outcome == outcomes[name]
             called == [acc EXCEPT
                          !.calls = Append(@, StageCall(name, ticker, a))]
         IN IF ~StageEnabled(name, a)
            THEN RunStages(k + 1, ticker, a, outcomes, acc)
            ELSE IF outcome.kind = "raised"
            THEN [called EXCEPT !.raised = TRUE]
            ELSE IF outcome.kind = "None"
            THEN RunStages(k + 1, ticker, a, outcomes, called)
            ELSE RunStages(k + 1, ticker, a, outcomes,
                           [called EXCEPT !.result =
                              Put(@, StageLabel(name), outcome.table)])

NoActivation ==
    [ticker |-> None, outcomes |-> EmptyMapping, calls |-> <<>>,
     result |-> EmptyMapping, raised |-> FALSE]

\* fetch_ticker_data(ticker, ...), outcomes[f] being what fetcher f returns
\* when called
FetchTickerData(ticker, a, outcomes) ==
    LET run == RunStages(1, ticker, a, outcomes,
                         [NoActivation EXCEPT !.ticker = ticker,
                                              !.outcomes = outcomes])
    IN IF run.raised THEN run
       ELSE [run EXCEPT !.result = WithEarnings(@)]

\* a payload of one row for each fetcher, and the table the fetcher makes
\* of it
SampleRow(name) ==
    CASE name \in {"fetch_historical_price", "fetch_intraday_prices"} ->
           [date |-> <<2024, 1, 2>>, close |-> 100, volume |-> 5000]
      [] name = "fetch_historical_dividends" ->
           [date |-> <<2024, 1, 2>>, dividend |-> 1,
            paymentDate |-> <<2024, 2, 1>>, recordDate |-> <<2024, 1, 2>>,
            declarationDate |-> <<2023, 12, 31>>]
      [] name = "fetch_company_profile" ->
           [symbol |-> "AAPL", companyName |-> "Apple Inc."]
      [] name \in STATEMENTS ->
           [date |-> <<2023, 12, 31>>, symbol |-> "MSFT", netIncome |-> 7]
SampleReply(name) ==
    IF ReadsHistorical(name)
    THEN DictData([symbol |-> "AAPL", historical |-> <<SampleRow(name)>>])
    ELSE ListData(<<SampleRow(name)>>)
SampleTable(name, ticker, a) ==
    CHOOSE r \in TableOf(StageCall(name, ticker, a), SampleReply(name)) : TRUE

\* the table fetch_income_statement makes of a payload without netIncome
RevenueOnlyReply ==
    ListData(<<[date |-> <<2023, 12, 31>>, symbol |-> "MSFT",
                revenue |-> 9]>>)
RevenueOnlyTable(ticker, a) ==
    CHOOSE r \in TableOf(StageCall("fetch_income_statement", ticker, a),
                         RevenueOnlyReply) : TRUE

\* what a fetcher can return to fetch_ticker_data
FetcherResults(name, ticker, a) ==
    {ReturnsNone, Raises("KeyError"), SampleTable(name, ticker, a)}
    \cup IF name = "fetch_income_statement"
         THEN {RevenueOnlyTable(ticker, a)} ELSE {}

\* what the fetchers return in one fetch_ticker_data activation: all of
\* them a table, or all of them None, but for one at most
Outcomes(ticker, a) ==
    LET names == {StageFetchers[k] : k \in 1..Len(StageFetchers)}
        Uniform(kind) ==
            [n \in names |->
                IF kind = "table" THEN SampleTable(n, ticker, a)
                ELSE ReturnsNone]
    IN UNION {{[Uniform(kind) EXCEPT ![n] = r] :
                  kind \in {"table", "None"},
                  r \in FetcherResults(n, ticker, a)} : n \in names}

\* the arguments of the model for fetch_data_for_tickers
TickerList == <<"AAPL", "MSFT", "AAPL">>
TickerLists ==
    {SubSeq(TickerList, 1, n) : n \in 0..MaxTickers}
    \cup {SubSeq(TickerList, 2, n) : n \in 2..MaxTickers}
FetchArgs ==
    {[include_intraday |-> i, include_dividends |-> j,
      from_date |-> d[1], to_date |-> d[2], period |-> "annual",
      years |-> 10] : i \in BOOLEAN, j \in BOOLEAN, d \in DateArgs}

InitTickers ==
    /\ now = ImportTime
    /\ config = [api_key |-> "CFGKEY", rate_limit |-> DefaultQuota]
    /\ rate_limiter = NewRateLimiter(DEFAULT_REQUESTS_PER_MIN,
                                     DEFAULT_REQUESTS_PER_DAY, now)
    /\ pc = "idle"
    /\ call = NoCall
    /\ ncalls = 0
    /\ ngets = 0
    /\ sent = <<>>
    /\ last_wait = NoWait
    /\ fetcher = Unused
    /\ configured = Unused
    /\ cli = Unused
    /\ callers = Unused
    /\ fetch \in {[tickers |-> t, args |-> a, pc |-> "start", i |-> 1,
                   result |-> EmptyMapping, fetched |-> <<>>,
                   last |-> NoActivation] :
                     t \in TickerLists, a \in FetchArgs}

\* lines 578-584: no ticker, no request
StartFetch ==
    /\ fetch.pc = "start"
    /\ fetch' = [fetch EXCEPT
                   !.pc = IF fetch.tickers = <<>> THEN "returned" ELSE "loop"]
    /\ UNCHANGED <<configured, cli, callers, now, rate_limiter, config, pc, call, ncalls, ngets, sent,
                   last_wait, fetcher>>

NextTickerAfterRaiseNone(i, n) == n + 1

\* "except Exception": the loop goes on with the ticker after tickers[i]
NextTickerAfterRaise(i, n) == i + 1

OutcomeOfAnyMapping(run) ==
    IF run.raised THEN "raised" ELSE "data"

\* what became of a fetch_ticker_data activation, for the caller: line 598,
\* "if ticker_data", is false of an empty mapping
OutcomeOf(run) ==
    IF run.raised THEN "raised"
    ELSE IF DOMAIN run.result = {} THEN "empty" ELSE "data"

\* one iteration of "for ticker in tickers", lines 586-603
FetchNextTicker ==
    /\ fetch.pc = "loop"
    /\ fetch.i <= Len(fetch.tickers)
    /\ LET ticker == fetch.tickers[fetch.i]
       IN \E outcomes \in Outcomes(ticker, fetch.args) :
            LET run == FetchTickerData(ticker, fetch.args, outcomes)
            IN fetch' = [fetch EXCEPT
                 !.last = run,
                 !.fetched = Append(@, [ticker |-> ticker,
                                        outcome |-> OutcomeOf(run)]),
                 !.result = IF OutcomeOf(run) = "data"
                            THEN Put(@, ticker, run.result) ELSE @,
                 !.i = IF run.raised
                       THEN NextTickerAfterRaise(fetch.i, Len(fetch.tickers))
                       ELSE fetch.i + 1]
    /\ UNCHANGED <<configured, cli, callers, now, rate_limiter, config, pc, call, ncalls, ngets, sent,
                   last_wait, fetcher>>

\* lines 605-607: the loop is over
ReturnResult ==
    /\ fetch.pc = "loop"
    /\ fetch.i > Len(fetch.tickers)
    /\ fetch' = [fetch EXCEPT !.pc = "returned"]
    /\ UNCHANGED <<configured, cli, callers, now, rate_limiter, config, pc, call, ncalls, ngets, sent,
                   last_wait, fetcher>>

NextTickers == StartFetch \/ FetchNextTicker \/ ReturnResult

SpecTickers == InitTickers /\ [][NextTickers]_vars

----------------------------------------------------------------------------
(* cli.py: handle_fetch, the fetch subcommand.  A date string is the       *)
(* triple of its year, month and day fields; strptime makes a day ordinal  *)
(* of it and strftime a triple of a day ordinal.                           *)

\* the longest intraday range, in days, handle_fetch lets through
INTRADAY_DAYS == 7
\* "one year before to-date"
DEFAULT_RANGE_DAYS == 365

\* datetime.strptime(d, "%Y-%m-%d") does not raise ValueError
IsDate(d) == d[2] \in 1..12 /\ d[3] \in 1..DaysInMonth(d[1], d[2])

\* the years of the dates of the model
CalendarYears == 2022..2025

\* strftime("%Y-%m-%d") of the day with ordinal n
FromOrdinal(n) ==
    LET y == CHOOSE y \in CalendarYears :
                 DaysBeforeYear(y) < n /\ n <= DaysBeforeYear(y + 1)
        in_year == n - DaysBeforeYear(y)
        m == CHOOSE m \in 1..12 :
                 /\ DaysBeforeMonth(y, m) < in_year
                 /\ in_year <= DaysBeforeMonth(y, m) + DaysInMonth(y, m)
    IN <<y, m, in_year - DaysBeforeMonth(y, m)>>

\* (datetime.strptime(d, "%Y-%m-%d") - timedelta(days=n)).strftime("%Y-%m-%d")
DaysBefore(d, n) == FromOrdinal(ToDatetime(d) - n)

\* the calendar date of day 0 of the clock
DAY_ZERO == <<2024, 2, 3>>
\* datetime.now().strftime("%Y-%m-%d") at clock value t
Today(t) == FromOrdinal(ToDatetime(DAY_ZERO) + Date(t))

\* lines 274-282: the dates after the defaults for a missing one
WithDefaultDates(from_date, to_date, t) ==
    IF Given(from_date) /\ ~Given(to_date) THEN <<from_date, Today(t)>>
    ELSE IF Given(to_date) /\ ~Given(from_date)
    THEN <<DaysBefore(to_date, DEFAULT_RANGE_DAYS), to_date>>
    ELSE <<from_date, to_date>>

LimitIntradayAlways(from_date, to_date) ==
    DaysBefore(to_date, INTRADAY_DAYS)

\* lines 292-299: the from_date that goes on when intraday is requested
LimitIntraday(from_date, to_date) ==
    LET date_diff == ToDatetime(to_date) - ToDatetime(from_date)
    IN IF date_diff > INTRADAY_DAYS
       THEN DaysBefore(to_date, INTRADAY_DAYS)
       ELSE from_date

\* the command lines of the model
CliFromDates == {NoDate, <<2024, 1, 1>>, <<2024, 1, 24>>, <<2024, 1, 25>>,
                 <<2024, 2, 2>>, <<2024, 2, 30>>}
CliToDates == {NoDate, <<2024, 2, 1>>, <<2024, 3, 3>>}
CliTickers == {<<>>, <<"MSFT">>}
CliArgs ==
    [from_date : CliFromDates, to_date : CliToDates,
     include_intraday : BOOLEAN, include_dividends : BOOLEAN,
     crypto : BOOLEAN, api_key : {None, "ARGKEY"}, tickers : CliTickers]

\* the config files of the model
CliConfigs ==
    [api_key : ApiKeys, rate_limit : {DefaultQuota},
     tickers : {<<>>, <<"AAPL">>}, period : {"annual"}, years : {10}]

\* no fetch_data_for_tickers call yet
NoFetch ==
    [tickers |-> <<>>, args |-> Unused, pc |-> "none", i |-> 1,
     result |-> EmptyMapping, fetched |-> <<>>, last |-> NoActivation]

HandleFetch(args) ==
    [args |-> args, pc |-> "dates", from_date |-> NoDate, to_date |-> NoDate,
     validated |-> <<NoDate, NoDate>>, tickers |-> <<>>, api_key |-> None,
     include_dividends |-> FALSE, i |-> 1, data |-> EmptyMapping,
     ret |-> None]

InitCli ==
    /\ now = ImportTime
    /\ config \in CliConfigs
    /\ rate_limiter = NewRateLimiter(DEFAULT_REQUESTS_PER_MIN,
                                     DEFAULT_REQUESTS_PER_DAY, now)
    /\ pc = "idle"
    /\ call = NoCall
    /\ ncalls = 0
    /\ ngets = 0
    /\ sent = <<>>
    /\ last_wait = NoWait
    /\ fetcher = Unused
    /\ fetch = NoFetch
    /\ configured = Unused
    /\ callers = Unused
    /\ cli \in {HandleFetch(a) : a \in CliArgs}

\* handle_fetch returns n
CliReturn(n) == [cli EXCEPT !.pc = "returned", !.ret = n]

\* lines 221-282: the overrides of the config, the validation of the two
\* dates and the default for a missing one
CliParseDates ==
    /\ cli.pc = "dates"
    /\ LET a == cli.args
           tickers == IF a.tickers /= <<>> THEN a.tickers ELSE config.tickers
           dates == WithDefaultDates(a.from_date, a.to_date, now)
       IN cli' = IF \/ Given(a.from_date) /\ ~IsDate(a.from_date)
                    \/ Given(a.to_date) /\ ~IsDate(a.to_date)
                 THEN CliReturn(1)
                 ELSE [cli EXCEPT !.pc = "intraday",
                                  !.tickers = tickers,
                                  !.from_date = dates[1],
                                  !.to_date = dates[2],
                                  !.validated = dates]
    /\ UNCHANGED <<configured, callers, now, rate_limiter, config, pc, call,
                   ncalls, ngets, sent, last_wait, fetcher, fetch>>

\* lines 284-299: intraday needs both dates, and at most 7 days
CliLimitIntraday ==
    /\ cli.pc = "intraday"
    /\ cli' = IF ~cli.args.include_intraday
              THEN [cli EXCEPT !.pc = "key"]
              ELSE IF ~Given(cli.from_date) \/ ~Given(cli.to_date)
              THEN CliReturn(1)
              ELSE [cli EXCEPT !.pc = "key",
                               !.from_date = LimitIntraday(cli.from_date,
                                                           cli.to_date)]
    /\ UNCHANGED <<configured, callers, now, rate_limiter, config, pc, call,
                   ncalls, ngets, sent, last_wait, fetcher, fetch>>

\* lines 301-323: the API key, the tickers, no dividends for crypto
CliResolve ==
    /\ cli.pc = "key"
    /\ LET api_key == IF cli.args.api_key \notin {None, ""}
                      THEN cli.args.api_key ELSE config.api_key
       IN cli' = IF ~HasApiKey(api_key) \/ cli.tickers = <<>>
                 THEN CliReturn(1)
                 ELSE [cli EXCEPT
                         !.pc = IF cli.args.crypto THEN "crypto" ELSE "stocks",
                         !.api_key = api_key,
                         !.include_dividends = cli.args.include_dividends
                                               /\ ~cli.args.crypto]
    /\ UNCHANGED <<configured, callers, now, rate_limiter, config, pc, call,
                   ncalls, ngets, sent, last_wait, fetcher, fetch>>

\* what fetch_crypto_price returns to handle_fetch
CryptoResults(symbol) ==
    {ReturnsNone, Raises("KeyError")}
    \cup TableOf(FetcherCall("fetch_crypto_price", symbol, <<NoDate, NoDate>>,
                             "1min", "annual", 10),
                 SampleReply("fetch_historical_price"))

\* lines 326-338: one iteration of "for symbol in tickers"
CliFetchCrypto ==
    /\ cli.pc = "crypto"
    /\ cli.i <= Len(cli.tickers)
    /\ LET symbol == cli.tickers[cli.i]
       IN \E r \in CryptoResults(symbol) :
            cli' = [cli EXCEPT
                      !.i = @ + 1,
                      !.data = IF r.kind = "table"
                               THEN Put(@, symbol,
                                        Put(EmptyMapping, "ohlcv", r.table))
                               ELSE @]
    /\ UNCHANGED <<configured, callers, now, rate_limiter, config, pc, call,
                   ncalls, ngets, sent, last_wait, fetcher, fetch>>

\* line 338: the loop over the symbols is over
CliCryptoDone ==
    /\ cli.pc = "crypto"
    /\ cli.i > Len(cli.tickers)
    /\ cli' = [cli EXCEPT !.pc = "save"]
    /\ UNCHANGED <<configured, callers, now, rate_limiter, config, pc, call,
                   ncalls, ngets, sent, last_wait, fetcher, fetch>>

FetchDatesAsValidated(c) == c.validated

\* lines 347-348: from_date and to_date as the intraday step left them go
\* to fetch_data_for_tickers, for every data type
FetchDates(c) == <<c.from_date, c.to_date>>

\* lines 341-350: the call of fetch_data_for_tickers
CliFetchStocks ==
    /\ cli.pc = "stocks"
    /\ fetch' = [NoFetch EXCEPT
                   !.tickers = cli.tickers,
                   !.pc = "start",
                   !.args = [include_intraday |-> cli.args.include_intraday,
                             include_dividends |-> cli.include_dividends,
                             from_date |-> FetchDates(cli)[1],
                             to_date |-> FetchDates(cli)[2],
                             period |-> config.period,
                             years |-> config.years]]
    /\ cli' = [cli EXCEPT !.pc = "fetching"]
    /\ UNCHANGED <<configured, callers, now, rate_limiter, config, pc, call,
                   ncalls, ngets, sent, last_wait, fetcher>>

\* fetch_data_for_tickers has returned
CliStocksDone ==
    /\ cli.pc = "fetching"
    /\ fetch.pc = "returned"
    /\ cli' = [cli EXCEPT !.pc = "save", !.data = fetch.result]
    /\ UNCHANGED <<configured, callers, now, rate_limiter, config, pc, call,
                   ncalls, ngets, sent, last_wait, fetcher, fetch>>

\* lines 353-360: save what was fetched, or fail for want of data
CliSave ==
    /\ cli.pc = "save"
    /\ cli' = IF DOMAIN cli.data /= {} THEN CliReturn(0) ELSE CliReturn(1)
    /\ UNCHANGED <<configured, callers, now, rate_limiter, config, pc, call,
                   ncalls, ngets, sent, last_wait, fetcher, fetch>>

NextCli ==
    \/ CliParseDates \/ CliLimitIntraday \/ CliResolve
    \/ CliFetchCrypto \/ CliCryptoDone
    \/ CliFetchStocks \/ StartFetch \/ FetchNextTicker \/ ReturnResult
    \/ CliStocksDone \/ CliSave

SpecCli == InitCli /\ [][NextCli]_vars

----------------------------------------------------------------------------
(* Properties of the fetchers *)

FetcherReturned == fetcher.pc = "returned"
Requests == fetcher.requests
Reply(i) == fetcher.requests[i].reply

\* make_api_request gave the failure value
IsFailure(reply) == reply = NoneData
\* make_api_request gave the failure value or an empty payload
IsNoData(reply) == reply \in {NoneData, ListData(<<>>), DictData(NoParams)}

FallbackFetchers ==
    {"fetch_income_statement", "fetch_balance_sheet", "fetch_cash_flow",
     "fetch_company_profile"}

\* C12: in the fetchers with a fallback, once the primary request has
\* failed the secondary request is issued, once: the fetcher goes on to its
\* table or returns only after exactly two requests, never issues a third,
\* and returns None when the secondary also gave no data.
SecondaryExactlyOnce ==
    (/\ fetcher.name \in FallbackFetchers
     /\ Len(Requests) >= 1
     /\ IsFailure(Reply(1)))
        => /\ Len(Requests) <= 2
           /\ fetcher.pc = "secondary" <=> Len(Requests) = 1
           /\ (FetcherReturned /\ IsNoData(Reply(2)))
                 => fetcher.result = ReturnsNone

SecondaryExactlyOnceWitness ==
    /\ fetcher.name = "fetch_company_profile"
    /\ FetcherReturned
    /\ Len(Requests) = 2
    /\ IsFailure(Reply(1)) /\ IsFailure(Reply(2))
    /\ fetcher.result = ReturnsNone

\* the table has a row for every object of the payload, with the object's
\* values (symbol apart, which the statement fetchers overwrite)
BuiltFrom(table, reply) ==
    /\ reply.type = "list"
    /\ Len(table.rows) = Len(reply.items)
    /\ \A i \in 1..Len(table.rows) :
         \E j \in 1..Len(reply.items) :
            \A c \in (DOMAIN reply.items[j]) \ {"date", "symbol"} :
               /\ c \in DOMAIN table.rows[i].cells
               /\ table.rows[i].cells[c] = reply.items[j][c]

\* C13: a fetcher with a fallback that has returned without an exception
\* from make_api_request has issued the secondary request if and only if
\* the primary gave the failure value or an empty payload; a table it
\* returns is built from the first of the two payloads that was not empty;
\* and it returns None exactly when both requests gave no data.
FallbackIffNoPrimaryData ==
    (/\ fetcher.name \in FallbackFetchers
     /\ FetcherReturned
     /\ \A i \in 1..Len(Requests) : Reply(i) /= RaisedData)
        => /\ Len(Requests) \in {1, 2}
           /\ Len(Requests) = 2 <=> IsNoData(Reply(1))
           /\ fetcher.result.kind = "table"
                 => BuiltFrom(fetcher.result.table, Reply(Len(Requests)))
           /\ fetcher.result = ReturnsNone
                 <=> (Len(Requests) = 2 /\ IsNoData(Reply(1))
                                        /\ IsNoData(Reply(2)))

FallbackIffNoPrimaryDataWitness ==
    /\ fetcher.name = "fetch_income_statement"
    /\ FetcherReturned
    /\ Len(Requests) = 2
    /\ Reply(1) = ListData(<<>>)
    /\ fetcher.result.kind = "table"
    /\ Len(fetcher.result.table.rows) = 2

PathPeriods == {"annual", "quarter", "Quarter"}

HistoricalFetchers ==
    {"fetch_historical_price", "fetch_crypto_price",
     "fetch_historical_dividends"}

\* C17: a fetcher that reads the "historical" field and got an object in
\* which "historical" is missing or is an empty list returns None; it does
\* not raise.
NoHistoricalIsNone ==
    (/\ fetcher.name \in HistoricalFetchers
     /\ FetcherReturned
     /\ Len(Requests) = 1
     /\ Reply(1).type = "dict"
     /\ \/ "historical" \notin DOMAIN Reply(1).fields
        \/ Reply(1).fields.historical = <<>>)
        => fetcher.result = ReturnsNone

\* the rows of the payload the fetcher built its table from
PayloadRows ==
    LET reply == Reply(Len(Requests))
    IN IF reply.type = "dict" THEN reply.fields.historical ELSE reply.items

ReturnedDatedTable ==
    /\ FetcherReturned
    /\ fetcher.result.kind = "table"
    /\ fetcher.result.table.index_name = "date"
TableRows == fetcher.result.table.rows

\* C18: a returned table indexed by date has one row for each date of the
\* payload, and that row is the first row of the payload with that date.
OneRowPerDate ==
    ReturnedDatedTable
        => /\ \A i, j \in 1..Len(TableRows) :
                 i /= j => TableRows[i].index /= TableRows[j].index
           /\ \A i \in 1..Len(TableRows) :
                 \E j \in 1..Len(PayloadRows) :
                    /\ ToDatetime(PayloadRows[j].date) = TableRows[i].index
                    /\ \A k \in 1..(j - 1) :
                          PayloadRows[k].date /= PayloadRows[j].date
                    /\ \A c \in DOMAIN PayloadRows[j] \cap
                                   DOMAIN TableRows[i].cells :
                          c /= "symbol"
                             => PayloadRows[j][c] = TableRows[i].cells[c]

\* the value that tells rows of one date apart, in the payload and in the
\* table
PayloadValue(item) ==
    IF "close" \in DOMAIN item THEN item.close
    ELSE IF "dividend" \in DOMAIN item THEN item.dividend
    ELSE item.netIncome
TableValue(row) ==
    IF "Close" \in DOMAIN row.cells THEN row.cells["Close"]
    ELSE IF "dividend" \in DOMAIN row.cells THEN row.cells.dividend
    ELSE row.cells.netIncome

\* C19: a returned table indexed by date has its rows in ascending order of
\* the index, and its rows are the rows of the payload, each once: some
\* one-to-one assignment of table rows to payload rows matches date and
\* value.
SortedPermutation ==
    ReturnedDatedTable
        => /\ \A i, j \in 1..Len(TableRows) :
                 i < j => TableRows[i].index <= TableRows[j].index
           /\ Len(TableRows) = Len(PayloadRows)
           /\ \E p \in Permutations(1..Len(TableRows)) :
                 \A i \in 1..Len(TableRows) :
                    /\ TableRows[i].index = ToDatetime(PayloadRows[p[i]].date)
                    /\ TableValue(TableRows[i]) = PayloadValue(PayloadRows[p[i]])

SortedPermutationWitness ==
    /\ ReturnedDatedTable
    /\ fetcher.name = "fetch_historical_dividends"
    /\ Len(PayloadRows) = 3
    /\ PayloadRows[1].date = <<2024, 2, 1>>
    /\ PayloadRows[2].date = <<2023, 12, 31>>
    /\ PayloadRows[3].date = <<2024, 1, 2>>
    /\ TableRows[1].index < TableRows[2].index
    /\ TableRows[2].index < TableRows[3].index

CanonicalNames ==
    {<<"open", "Open">>, <<"high", "High">>, <<"low", "Low">>,
     <<"close", "Close">>, <<"volume", "Volume">>,
     <<"adjClose", "Adj Close">>}

DistinctDates(items) ==
    \A i, j \in 1..Len(items) :
        /\ "date" \in DOMAIN items[i]
        /\ i /= j => items[i].date /= items[j].date

\* C20: for a payload whose "historical" list has n >= 1 rows with distinct
\* dates, fetch_historical_price returns a table of n rows indexed by the
\* parsed dates, in which every source field open, high, low, close,
\* volume, adjClose of a row stands under its canonical name, with the
\* value of the payload, and under no other name.
CanonicalPriceTable ==
    (/\ fetcher.name = "fetch_historical_price"
     /\ FetcherReturned
     /\ Len(Requests) = 1
     /\ Reply(1).type = "dict"
     /\ "historical" \in DOMAIN Reply(1).fields
     /\ Len(Reply(1).fields.historical) >= 1
     /\ DistinctDates(Reply(1).fields.historical))
        => /\ ReturnedDatedTable
           /\ Len(TableRows) = Len(PayloadRows)
           /\ \A j \in 1..Len(PayloadRows) :
                 \E i \in 1..Len(TableRows) :
                    /\ TableRows[i].index = ToDatetime(PayloadRows[j].date)
                    /\ \A n \in CanonicalNames :
                          n[1] \in DOMAIN PayloadRows[j]
                             => /\ n[2] \in DOMAIN TableRows[i].cells
                                /\ n[1] \notin DOMAIN TableRows[i].cells
                                /\ TableRows[i].cells[n[2]]
                                      = PayloadRows[j][n[1]]
                                /\ n[2] \in fetcher.result.table.columns
                                /\ n[1] \notin fetcher.result.table.columns

CanonicalPriceTableWitness ==
    /\ fetcher.name = "fetch_historical_price"
    /\ ReturnedDatedTable
    /\ PayloadRows = <<[date |-> <<2024, 1, 2>>, close |-> 100,
                        volume |-> 5000]>>
    /\ Len(TableRows) = 1
    /\ fetcher.result.table.columns = {"Close", "Volume"}
    /\ TableRows[1].cells["Close"] = 100
    /\ TableRows[1].cells["Volume"] = 5000

----------------------------------------------------------------------------
(* Properties of fetch_ticker_data and fetch_data_for_tickers *)

TickersReturned == fetch.pc = "returned"

\* C15: in fetch_data_for_tickers the tickers are fetched in order, each
\* once, whatever became of the tickers before: when the function returns,
\* fetch_ticker_data has been called for every ticker of the list, also
\* for those after a ticker whose fetch raised or gave an empty mapping;
\* and the result has a key for every ticker whose fetch_ticker_data
\* returned a non-empty mapping.
TickerIsolation ==
    /\ Len(fetch.fetched) <= Len(fetch.tickers)
    /\ \A i \in 1..Len(fetch.fetched) :
          /\ fetch.fetched[i].ticker = fetch.tickers[i]
          /\ fetch.fetched[i].outcome = "data"
                => fetch.tickers[i] \in DOMAIN fetch.result
    /\ TickersReturned => Len(fetch.fetched) = Len(fetch.tickers)

TickerIsolationWitness ==
    /\ TickersReturned
    /\ fetch.tickers = <<"AAPL", "MSFT">>
    /\ fetch.fetched = <<[ticker |-> "AAPL", outcome |-> "raised"],
                         [ticker |-> "MSFT", outcome |-> "data"]>>
    /\ DOMAIN fetch.result = {"MSFT"}

\* C16: in a fetch_ticker_data activation every fetcher that the arguments
\* ask for is called, whatever the fetchers before it did (returned None or
\* raised), and the table of every fetcher that returned one is in the
\* result under the fetcher's label.
DataTypeIsolation ==
    fetch.last /= NoActivation
        => \A k \in 1..Len(StageFetchers) :
              LET name == StageFetchers[k]
              IN StageEnabled(name, fetch.args)
                    => /\ \E c \in 1..Len(fetch.last.calls) :
                             fetch.last.calls[c].name = name
                       /\ fetch.last.outcomes[name].kind = "table"
                             => /\ ~fetch.last.raised
                                /\ StageLabel(name) \in DOMAIN fetch.last.result
                                /\ fetch.last.result[StageLabel(name)]
                                      = fetch.last.outcomes[name].table

----------------------------------------------------------------------------
(* Further properties of the fetchers *)

StatementFetchers ==
    {"fetch_income_statement", "fetch_balance_sheet", "fetch_cash_flow"}

\* C21: every table a statement fetcher returns for ticker T has the column
\* "symbol", and T in it in every row, whatever symbol the payload rows
\* carried, if any, and whichever request supplied the payload.
SymbolIsTicker ==
    (/\ fetcher.name \in StatementFetchers
     /\ FetcherReturned
     /\ fetcher.result.kind = "table")
        => /\ "symbol" \in fetcher.result.table.columns
           /\ \A i \in 1..Len(TableRows) :
                 /\ "symbol" \in DOMAIN TableRows[i].cells
                 /\ TableRows[i].cells.symbol = fetcher.ticker

SymbolIsTickerWitness ==
    /\ fetcher.name = "fetch_cash_flow"
    /\ fetcher.ticker = "AAPL"
    /\ FetcherReturned
    /\ Len(Requests) = 2
    /\ fetcher.result.kind = "table"
    /\ Len(PayloadRows) = 1
    /\ "symbol" \in DOMAIN PayloadRows[1]
    /\ PayloadRows[1].symbol = "MSFT"
    /\ TableRows[1].cells.symbol = "AAPL"

----------------------------------------------------------------------------
(* Further properties of fetch_ticker_data *)

\* the last fetch_ticker_data activation returned a mapping
TickerDataReturned == fetch.last.ticker /= None /\ ~fetch.last.raised
TickerData == fetch.last.result

\* C22: the mapping fetch_ticker_data returns has the label "earnings" if
\* and only if it has "income_stmt" with a netIncome column; the earnings
\* table has the one column "Net Income", and the index and the values of
\* netIncome, row by row.
EarningsIffNetIncome ==
    TickerDataReturned
        => LET has_income == /\ "income_stmt" \in DOMAIN TickerData
                             /\ "netIncome" \in
                                    TickerData["income_stmt"].columns
           IN /\ "earnings" \in DOMAIN TickerData <=> has_income
              /\ has_income =>
                   LET income == TickerData["income_stmt"]
                       earnings == TickerData["earnings"]
                   IN /\ earnings.columns = {"Net Income"}
                      /\ earnings.index_name = income.index_name
                      /\ Len(earnings.rows) = Len(income.rows)
                      /\ \A i \in 1..Len(income.rows) :
                            /\ earnings.rows[i].index = income.rows[i].index
                            /\ DOMAIN earnings.rows[i].cells = {"Net Income"}
                            /\ earnings.rows[i].cells["Net Income"]
                                 = income.rows[i].cells.netIncome

EarningsIffNetIncomeWitness ==
    /\ TickerDataReturned
    /\ "income_stmt" \in DOMAIN TickerData
    /\ "earnings" \in DOMAIN TickerData
    /\ TickerData["earnings"].rows[1].cells["Net Income"] = 7
    /\ TickerData["earnings"].rows[1].index = ToDatetime(<<2023, 12, 31>>)

----------------------------------------------------------------------------
(* Further properties of fetch_intraday_prices *)

IntradayCall == fetcher.name = "fetch_intraday_prices"
BadIntradayArguments ==
    \/ fetcher.interval \notin
         {"1min", "5min", "15min", "30min", "1hour", "4hour"}
    \/ fetcher.from_date = NoDate
    \/ fetcher.to_date = NoDate

\* C25: fetch_intraday_prices with an interval outside the six valid ones,
\* or without from_date or to_date, never calls make_api_request, the one
\* place of acquire, GET and retry, and returns None.
InvalidIntradayMakesNoRequest ==
    (IntradayCall /\ BadIntradayArguments)
        => /\ Requests = <<>>
           /\ FetcherReturned => fetcher.result = ReturnsNone

InvalidIntradayMakesNoRequestWitness ==
    /\ IntradayCall
    /\ fetcher.interval = "2hour"
    /\ fetcher.from_date /= NoDate
    /\ fetcher.to_date /= NoDate
    /\ FetcherReturned
    /\ Requests = <<>>
    /\ fetcher.result = ReturnsNone

\* C24: every intraday request carries a from/to range of at most 7 days,
\* on every path into fetch_intraday_prices.
IntradayRangeAtMostWeek ==
    IntradayCall
        => \A i \in 1..Len(Requests) :
              LET params == Requests[i].request.params
              IN ToDatetime(params.to) - ToDatetime(params.from)
                    <= INTRADAY_DAYS

----------------------------------------------------------------------------
(* Further properties of make_api_request and configure_rate_limiter *)

\* C26: every requests.get of make_api_request, the first and each retry,
\* sends a non-empty apikey: the api_key argument when there is one, the
\* configured key only when the argument is None.
EveryGetCarriesApiKey ==
    [][ngets' /= ngets
         => /\ "apikey" \in DOMAIN call.params
            /\ call.params.apikey /= ""
            /\ call.params.apikey /= None
            /\ call.params.apikey =
                 IF call.api_key_arg = None THEN config.api_key
                 ELSE call.api_key_arg]_vars

EveryGetCarriesApiKeyWitness ==
    /\ Len(Gets) >= 2
    /\ call.api_key_arg = "ARGKEY"
    /\ config.api_key = "CFGKEY"
    /\ call.params.apikey = "ARGKEY"

\* C27: make_api_request leaves the params dict of its caller as it was,
\* whether the call succeeds or fails.
CallerParamsUnchanged ==
    ncalls > 0 => call.params = call.params_arg

\* C28: configure_rate_limiter leaves the global limiter and its state as
\* they are when the config has no rate_limit entry, or one with the quotas
\* of the limiter; otherwise the global limiter becomes one with the
\* configured quotas, an empty window and a daily count of 0.
ConfigureKeepsOrReplaces ==
    configured /= Unused
        => LET cfg == configured.config
               before == configured.before
               after == configured.after
               per_min == IF "requests_per_min" \in DOMAIN cfg.rate_limit
                          THEN cfg.rate_limit.requests_per_min
                          ELSE DEFAULT_REQUESTS_PER_MIN
               per_day == IF "requests_per_day" \in DOMAIN cfg.rate_limit
                          THEN cfg.rate_limit.requests_per_day
                          ELSE DEFAULT_REQUESTS_PER_DAY
           IN IF "rate_limit" \notin DOMAIN cfg
              THEN after = before
              ELSE IF per_min = before.requests_per_min
                      /\ per_day = before.requests_per_day
              THEN after = before
              ELSE /\ after.requests_per_min = per_min
                   /\ after.requests_per_day = per_day
                   /\ after.minute_request_timestamps = <<>>
                   /\ after.daily_request_count = 0

ConfigureKeepsOrReplacesWitness ==
    /\ configured /= Unused
    /\ configured.before.daily_request_count > 0
    /\ configured.before.requests_per_min = DEFAULT_REQUESTS_PER_MIN
    /\ "rate_limit" \in DOMAIN configured.config
    /\ "requests_per_day" \notin DOMAIN configured.config.rate_limit
    /\ configured.after = NewRateLimiter(1, DEFAULT_REQUESTS_PER_DAY, now)

----------------------------------------------------------------------------
(* Further properties of the rate limiter *)

\* C29: every wait_if_needed() call ends with the random delay of 0.1 to
\* 0.5 s, on each of its paths: no wait, per-minute wait, daily-quota wait.
JitterOnEveryPath ==
    last_wait.path /= "none"
        => /\ last_wait.jitter >= LIMITER_JITTER_MIN
           /\ last_wait.jitter <= LIMITER_JITTER_MAX

\* C30: the pair wait_if_needed() ... add_request() runs under one lock:
\* no two threads are between the two calls at once, and so no interleaving
\* of the threads puts more than requests_per_min requests into a 60 s
\* window or more than requests_per_day into a day.
CheckAndUpdateExclusive ==
    /\ Cardinality(Acquired) <= 1
    /\ \A i \in 1..Len(sent) :
          /\ Cardinality(RecordedInWindow(sent[i]))
                <= rate_limiter.requests_per_min
          /\ Cardinality(RecordedOnDay(Date(sent[i])))
                <= rate_limiter.requests_per_day

----------------------------------------------------------------------------
(* Properties of handle_fetch *)

\* handle_fetch has got past its intraday step with intraday requested
IntradayRequested ==
    /\ cli.args.include_intraday
    /\ cli.pc \in {"key", "crypto", "stocks", "fetching", "save"}
       \/ (cli.pc = "returned" /\ cli.api_key /= None)

\* C23: with intraday requested and validated dates, the from date that
\* handle_fetch goes on with and passes to fetch_data_for_tickers is the to
\* date less 7 days when the to date is more than 7 days after the from
\* date (2024-01-01 to 2024-02-01 gives 2024-01-25), and the from date as
\* given otherwise; limiting the limited range again changes nothing.
IntradayRangeLimited ==
    IntradayRequested
        => LET from_date == cli.validated[1]
               to_date == cli.validated[2]
               days == ToDatetime(to_date) - ToDatetime(from_date)
           IN /\ cli.to_date = to_date
              /\ days > 7
                   => /\ IsDate(cli.from_date)
                      /\ ToDatetime(cli.from_date) = ToDatetime(to_date) - 7
              /\ days <= 7 => cli.from_date = from_date
              /\ (from_date = <<2024, 1, 1>> /\ to_date = <<2024, 2, 1>>)
                   => cli.from_date = <<2024, 1, 25>>
              /\ LimitIntraday(cli.from_date, cli.to_date) = cli.from_date
              /\ fetch.pc /= "none"
                   => /\ fetch.args.from_date = cli.from_date
                      /\ fetch.args.to_date = cli.to_date

IntradayRangeLimitedWitness ==
    /\ IntradayRequested
    /\ cli.args.from_date = <<2024, 1, 1>>
    /\ cli.args.to_date = <<2024, 2, 1>>
    /\ fetch.pc = "returned"
    /\ fetch.args.include_intraday
    /\ fetch.args.from_date = <<2024, 1, 25>>
    /\ fetch.args.to_date = <<2024, 2, 1>>

----------------------------------------------------------------------------
(* Properties of the result of fetch_ticker_data and fetch_data_for_tickers *)

TickerDataLabels ==
    {"ohlcv", "intraday", "dividends", "profile", "income_stmt",
     "balance_sheet", "cash_flow", "earnings"}

\* the fetchers the last fetch_ticker_data activation called
FetchersCalled ==
    {fetch.last.calls[i].name : i \in 1..Len(fetch.last.calls)}

\* C31: the mapping fetch_ticker_data returns has its keys among the eight
\* labels; a label is there only if its fetcher returned a table, which is
\* the value under it; fetch_intraday_prices is called only with
\* include_intraday and both dates, fetch_historical_dividends only with
\* include_dividends.
LabelsOnlyForTables ==
    /\ TickerDataReturned
         => /\ DOMAIN TickerData \subseteq TickerDataLabels
            /\ \A k \in 1..Len(StageFetchers) :
                  LET name == StageFetchers[k]
                  IN StageLabel(name) \in DOMAIN TickerData
                        => /\ name \in FetchersCalled
                           /\ fetch.last.outcomes[name].kind = "table"
                           /\ TickerData[StageLabel(name)]
                                = fetch.last.outcomes[name].table
    /\ fetch.last.ticker /= None
         => /\ "fetch_intraday_prices" \in FetchersCalled
                 => /\ fetch.args.include_intraday
                    /\ fetch.args.from_date /= NoDate
                    /\ fetch.args.to_date /= NoDate
            /\ "fetch_historical_dividends" \in FetchersCalled
                 => fetch.args.include_dividends

LabelsOnlyForTablesWitness ==
    /\ TickerDataReturned
    /\ fetch.args.include_intraday
    /\ ~fetch.args.include_dividends
    /\ fetch.args.from_date /= NoDate
    /\ fetch.args.to_date = NoDate
    /\ fetch.last.outcomes["fetch_company_profile"].kind = "None"
    /\ DOMAIN TickerData =
         {"ohlcv", "income_stmt", "balance_sheet", "cash_flow", "earnings"}
    /\ FetchersCalled =
         {"fetch_historical_price", "fetch_company_profile",
          "fetch_income_statement", "fetch_balance_sheet", "fetch_cash_flow"}

----------------------------------------------------------------------------
(* Properties of the requests of the fetchers *)

\* the request names the ticker of the call, in its path or as the query
\* parameter symbol
NamesTicker(request) ==
    \/ \E k \in 1..Len(request.endpoint) : request.endpoint[k] = fetcher.ticker
    \/ /\ "symbol" \in DOMAIN request.params
       /\ request.params.symbol = fetcher.ticker

\* C32: every request of fetch_historical_price names the ticker, without a
\* date range and with from_date and to_date.
PriceRequestNamesTicker ==
    fetcher.name = "fetch_historical_price"
        => \A i \in 1..Len(Requests) : NamesTicker(Requests[i].request)

\* C33: the first request of fetch_company_profile for ticker T goes to
\* profile/T, and so each of its requests names T.
ProfilePathHasTicker ==
    fetcher.name = "fetch_company_profile"
        => /\ Len(Requests) >= 1
                => Requests[1].request.endpoint = <<"profile", fetcher.ticker>>
           /\ \A i \in 1..Len(Requests) : NamesTicker(Requests[i].request)

----------------------------------------------------------------------------
(* Properties of the retry loop and of the limiter's window *)

\* response.json() failed on the body of e
IsBadJson(e) ==
    /\ ~e.response.raised
    /\ e.response.status_code = 200
    /\ e.response.body = "not_json"

\* the i-th GET of the call failed in a way the loop retries: HTTP 429, an
\* exception of the network layer, or a JSON error that was caught (one
\* that was not caught ended the call by raising)
RetryableFailure(i) ==
    \/ Is429(Gets[i])
    \/ IsNetworkError(Gets[i])
    \/ IsBadJson(Gets[i]) /\ ~(i = Len(Gets) /\ call.result = "raised")

SleepsAfter(i) ==
    {k \in 1..Len(Sleeps) :
        Sleeps[k].attempt = Gets[i].attempt /\ Sleeps[k].wait > 0}

\* C34: every retryable failure is followed by one backoff sleep, the
\* failure of the last attempt too: there are as many sleeps as retryable
\* failures, and a call that uses up its n attempts sleeps n times, the
\* last time after its n-th GET.
BackoffAfterEveryFailure ==
    /\ \A i \in 1..Len(Gets) :
          Cardinality(SleepsAfter(i)) = IF RetryableFailure(i) THEN 1 ELSE 0
    /\ Len(Sleeps) = Cardinality({i \in 1..Len(Gets) : RetryableFailure(i)})
    /\ (/\ Returned /\ EnteredLoop
        /\ call.max_retries >= 1
        /\ Len(Gets) = call.max_retries
        /\ \A i \in 1..Len(Gets) : RetryableFailure(i))
          => /\ Len(Sleeps) = call.max_retries
             /\ call.trace[Len(call.trace)].ev = "sleep"
             /\ call.result = None

BackoffAfterEveryFailureWitness ==
    /\ Returned /\ EnteredLoop
    /\ call.max_retries = 2
    /\ Len(Gets) = 2
    /\ Is429(Gets[1]) /\ IsNetworkError(Gets[2])
    /\ Len(Sleeps) = 2
    /\ call.trace[Len(call.trace)].ev = "sleep"
    /\ call.result = None

\* C35: with one caller running wait_if_needed() and add_request() in
\* turn, minute_request_timestamps never holds more than requests_per_min
\* entries.
WindowHoldsAtMostPerMin ==
    Len(rate_limiter.minute_request_timestamps)
        <= rate_limiter.requests_per_min

----------------------------------------------------------------------------
(* Properties of the requests of the statement fetchers *)

StatementCall == fetcher.name \in STATEMENTS
PathShaped(request) ==
    /\ Len(request.endpoint) = 2
    /\ request.endpoint[2] = fetcher.ticker
    /\ "symbol" \notin DOMAIN request.params
QueryShaped(request) ==
    /\ Len(request.endpoint) = 1
    /\ "symbol" \in DOMAIN request.params
    /\ request.params.symbol = fetcher.ticker

\* the requests of a statement fetcher for a period that counts as
\* quarterly, as annual, as neither
PeriodCarried(quarterly, annual) ==
    /\ \A i \in 1..Len(Requests) :
          LET request == Requests[i].request
          IN /\ "limit" \in DOMAIN request.params
             /\ request.params.limit = fetcher.limit
             /\ quarterly => /\ "period" \in DOMAIN request.params
                             /\ request.params.period = "quarter"
             /\ annual => "period" \notin DOMAIN request.params
             /\ IF i = 1 /\ (quarterly \/ annual)
                THEN PathShaped(request) ELSE QueryShaped(request)
    /\ (~quarterly /\ ~annual /\ Len(Requests) = 2)
          => Requests[2].request = Requests[1].request

\* C36 as stated: the period strings are "quarter", "annual" and any other.
PeriodCarriedByBothShapes ==
    StatementCall
        => PeriodCarried(fetcher.period = "quarter", fetcher.period = "annual")

\* C36 amended: the period is compared without regard to case; a period that
\* is "quarter" then has period=quarter and the limit in both requests, one
\* that is "annual" has no period parameter in either, and for any other
\* period the primary is the query-parameterized request, which the
\* secondary repeats.
PeriodCarriedFoldingCase ==
    StatementCall
        => PeriodCarried(fetcher.period \in {"quarter", "Quarter"},
                         fetcher.period = "annual")

PeriodCarriedFoldingCaseWitness ==
    /\ fetcher.name = "fetch_balance_sheet"
    /\ fetcher.period = "Quarter"
    /\ FetcherReturned
    /\ Len(Requests) = 2
    /\ PathShaped(Requests[1].request)
    /\ QueryShaped(Requests[2].request)
    /\ Requests[1].request.params.period = "quarter"
    /\ Requests[2].request.params.period = "quarter"

----------------------------------------------------------------------------
(* Properties of the dates handle_fetch passes on *)

\* the fetch_historical_price calls of the last fetch_ticker_data
\* activation of the run
DailyPriceCalls ==
    {i \in 1..Len(fetch.last.calls) :
        fetch.last.calls[i].name = "fetch_historical_price"}

\* C37: when intraday is requested with a range longer than 7 days, the
\* daily price request of the run carries the to date less 7 days as its
\* from date, not the from date of the caller; when intraday is not
\* requested it carries the range of the caller.
ClampSharedWithDailyPrices ==
    \A i \in DailyPriceCalls :
        LET request == PrimaryRequestOf(fetch.last.calls[i])
            from_date == cli.validated[1]
            to_date == cli.validated[2]
        IN /\ (/\ cli.args.include_intraday
               /\ ToDatetime(to_date) - ToDatetime(from_date) > 7)
                 => /\ "from" \in DOMAIN request.params
                    /\ ToDatetime(request.params.from)
                         = ToDatetime(to_date) - 7
                    /\ request.params.from /= from_date
                    /\ request.params.to = to_date
           /\ ~cli.args.include_intraday
                 => IF from_date /= NoDate /\ to_date /= NoDate
                    THEN /\ request.params.from = from_date
                         /\ request.params.to = to_date
                    ELSE "from" \notin DOMAIN request.params

ClampSharedWithDailyPricesWitness ==
    /\ cli.pc = "returned"
    /\ cli.args.include_intraday
    /\ cli.args.from_date = <<2024, 1, 24>>
    /\ cli.args.to_date = <<2024, 3, 3>>
    /\ DailyPriceCalls = {1}
    /\ PrimaryRequestOf(fetch.last.calls[1]).params.from = <<2024, 2, 25>>
    /\ PrimaryRequestOf(fetch.last.calls[1]).params.to = <<2024, 3, 3>>

----------------------------------------------------------------------------
(* Properties of the mapping fetch_data_for_tickers returns *)

\* the tickers of the list with a fetch_ticker_data activation that
\* returned a non-empty mapping
TickersWithData ==
    {fetch.fetched[i].ticker :
        i \in {j \in 1..Len(fetch.fetched) :
                  fetch.fetched[j].outcome = "data"}}

\* C38: the keys of the mapping of fetch_data_for_tickers are tickers of
\* the list; for an empty list the mapping is empty and fetch_ticker_data
\* is never called; a ticker whose fetch_ticker_data returned an empty
\* mapping or raised is not a key, and no key is mapped to an empty
\* mapping.
ResultKeysAreFetchedTickers ==
    /\ DOMAIN fetch.result \subseteq Range(fetch.tickers)
    /\ fetch.tickers = <<>>
          => /\ fetch.result = EmptyMapping
             /\ fetch.fetched = <<>>
             /\ fetch.last = NoActivation
             /\ ngets = 0
    /\ DOMAIN fetch.result = TickersWithData
    /\ \A t \in DOMAIN fetch.result : DOMAIN fetch.result[t] /= {}

ResultKeysAreFetchedTickersWitness ==
    /\ TickersReturned
    /\ fetch.tickers = <<"AAPL", "MSFT">>
    /\ fetch.fetched = <<[ticker |-> "AAPL", outcome |-> "empty"],
                         [ticker |-> "MSFT", outcome |-> "data"]>>
    /\ DOMAIN fetch.result = {"MSFT"}
    /\ DOMAIN fetch.result["MSFT"] /= {}

====
